---- MODULE Spec2Model ----
(***************************************************************************)
(* Reverse-mode automatic differentiation engine of deepnet / nura:        *)
(* tensors, graph nodes resolved through Node.children, the queue-driven   *)
(* backward pass with broadcast-mismatch reduction, and the grad / vjp /   *)
(* jvp / jacobian entry points built on it.                                *)
(***************************************************************************)
EXTENDS Integers, Sequences, FiniteSets, TLC

(***************************************************************************)
(* Bounds of the model.                                                    *)
(***************************************************************************)
\* tensors a program holds
MaxTensors == 3
\* leaf tensors a program creates
MaxLeaves == 2
\* tracked operations a program applies
MaxOps == 2
\* differentiation calls of a program that pass validation
MaxCalls == 2
\* largest rank of a leaf created by the program
MaxRank == 1
\* largest size of one dimension
MaxDim == 2
\* backward passes that precede the calls of the functional API in SpecApi
MaxApiPasses == 1
\* most tensors passed as inputs to grad / vjp / jvp / jacobian
MaxInputs == 2
\* largest rank of a gradient handed to a leaf accumulator in SpecReduce
MaxGradRank == 3

\* scopes a program has open at once
MaxScopes == 2

None == [none |-> TRUE]

(***************************************************************************)
(* The array backend (numpy): row-major dense arrays with a shape.         *)
(***************************************************************************)
RECURSIVE Nelem(_)
Nelem(dim) == IF dim = <<>> THEN 1 ELSE dim[1] * Nelem(Tail(dim))

RECURSIVE Unravel(_, _)
Unravel(i, dim) ==
    IF dim = <<>> THEN <<>>
    ELSE LET rest == Nelem(Tail(dim))
         IN  <<i \div rest>> \o Unravel(i % rest, Tail(dim))

RECURSIVE Ravel(_, _)
Ravel(idx, dim) ==
    IF dim = <<>> THEN 0
    ELSE idx[1] * Nelem(Tail(dim)) + Ravel(Tail(idx), Tail(dim))

At(a, idx) == a.data[Ravel(idx, a.dim) + 1]

Max2(x, y) == IF x >= y THEN x ELSE y

PadLeft(d, n, c) ==
    [k \in 1..n |-> IF k <= n - Len(d) THEN c ELSE d[k - (n - Len(d))]]

\* numpy's broadcasting rule on two shapes, aligned at the trailing axis
Broadcastable(d1, d2) ==
    LET n  == Max2(Len(d1), Len(d2))
        p1 == PadLeft(d1, n, 1)
        p2 == PadLeft(d2, n, 1)
    IN  \A k \in 1..n : p1[k] = p2[k] \/ p1[k] = 1 \/ p2[k] = 1

BroadcastDim(d1, d2) ==
    LET n  == Max2(Len(d1), Len(d2))
        p1 == PadLeft(d1, n, 1)
        p2 == PadLeft(d2, n, 1)
    IN  [k \in 1..n |-> IF p1[k] = 1 THEN p2[k] ELSE p1[k]]

\* the index of an operand of shape d that feeds index idx of the result
BIndex(idx, d) ==
    [k \in 1..Len(d) |-> IF d[k] = 1 THEN 0 ELSE idx[Len(idx) - Len(d) + k]]

IsFloat(dtype) == dtype \in {"float", "double"}

\* numpy's type promotion, on the dtypes the model has
Promote(t1, t2) ==
    IF "double" \in {t1, t2} THEN "double"
    ELSE IF "float" \in {t1, t2} THEN "float"
    ELSE "int"

Scalar(op, x, y) ==
    CASE op = "add" -> x + y
      [] op = "sub" -> x - y
      [] op = "mul" -> x * y

Elementwise(op, a, b) ==
    LET dim == BroadcastDim(a.dim, b.dim)
    IN  [dim   |-> dim,
         dtype |-> Promote(a.dtype, b.dtype),
         data  |-> [i \in 1..Nelem(dim) |->
                      LET idx == Unravel(i - 1, dim)
                      IN  Scalar(op, At(a, BIndex(idx, a.dim)),
                                     At(b, BIndex(idx, b.dim)))]]

RECURSIVE SumOver(_, _)
SumOver(S, data) ==
    IF S = {} THEN 0
    ELSE LET i == CHOOSE x \in S : TRUE
         IN  data[i] + SumOver(S \ {i}, data)

RECURSIVE DropAxes(_, _, _)
DropAxes(dim, axes, k) ==
    IF dim = <<>> THEN <<>>
    ELSE (IF k \in axes THEN <<>> ELSE <<dim[1]>>)
         \o DropAxes(Tail(dim), axes, k + 1)

\* numpy's sum over the axes in `axes` (0-based), keeping them as size-1
\* dimensions when keepdims
SumArr(a, axes, keepdims) ==
    LET keep == [k \in 1..Len(a.dim) |->
                    IF (k - 1) \in axes THEN 1 ELSE a.dim[k]]
        proj(idx) == [k \in 1..Len(idx) |->
                        IF (k - 1) \in axes THEN 0 ELSE idx[k]]
    IN  [dim   |-> IF keepdims THEN keep ELSE DropAxes(a.dim, axes, 0),
         dtype |-> a.dtype,
         data  |-> [j \in 1..Nelem(keep) |->
                      SumOver({i \in 1..Nelem(a.dim) :
                                 proj(Unravel(i - 1, a.dim))
                                   = Unravel(j - 1, keep)}, a.data)]]

Fill(dim, dtype, v) ==
    [dim |-> dim, dtype |-> dtype, data |-> [i \in 1..Nelem(dim) |-> v]]

\* an array can be assigned into a slot of shape dim
Assignable(a, dim) ==
    /\ Len(a.dim) <= Len(dim)
    /\ Broadcastable(a.dim, dim)
    /\ BroadcastDim(a.dim, dim) = dim

\* the array broadcast to shape dim
BroadcastTo(a, dim) ==
    [i \in 1..Nelem(dim) |-> At(a, BIndex(Unravel(i - 1, dim), a.dim))]

(***************************************************************************)
(* State.                                                                  *)
(***************************************************************************)
VARIABLES
    tensors,    \* the tensors the program holds, by identity (index)
    gradmode,   \* Mode State: [usegrad, reverse, forward]
    scopes,     \* the Mode States to restore on exit from the open scopes
    queue,      \* the work queue of the running _backward / _grad pass
    mode,       \* "idle", or the pass that is running: "backward", "grad"
    err,        \* the error the last call raised, "none" if it raised none
    result,     \* what the last grad / vjp / jvp / jacobian call returned
    calls,      \* number of differentiation calls made so far
    trace,      \* the (node, gradient) pairs the running/last pass dequeued
    grad0,      \* every tensor's grad when the running/last call started
    contribs,   \* per tensor, the gradients accumulated into its grad so far
    fcalls,     \* executions of f by the running/last vjp/jvp/jacobian call
    nops,       \* number of operations the program has applied
    lastcall    \* the running/last differentiation call and its arguments

vars == <<tensors, gradmode, scopes, queue, mode, err, result, calls,
          trace, grad0, contribs, fcalls, nops, lastcall>>

Ids == 1..Len(tensors)

RECURSIVE ShapesOfRank(_, _)
ShapesOfRank(r, maxdim) ==
    IF r = 0 THEN {<<>>}
    ELSE {<<d>> \o s : d \in 1..maxdim, s \in ShapesOfRank(r - 1, maxdim)}

ShapesUpTo(maxrank, maxdim) ==
    UNION {ShapesOfRank(r, maxdim) : r \in 0..maxrank}

LeafShapes == ShapesUpTo(MaxRank, MaxDim)
\* the value the k-th leaf of a program is filled from
LeafValues == <<-1, 5>>
LeafValue(k) == LeafValues[((k - 1) % Len(LeafValues)) + 1]
DTypes == {"float", "int"}

\* nura.autograd(enabled, reverse, forward): the Mode State it puts in force
autograd(enabled, reverse, forward) ==
    [usegrad |-> enabled, reverse |-> reverse, forward |-> forward]

\* the Mode State a program starts in
DefaultMode == autograd(TRUE, TRUE, FALSE)

\* the Mode State in force together with the Mode States of the open scopes
ModeState(gm, sc) == [mode |-> gm, scopes |-> sc]

\* entering `with nura.autograd(...)`: the Mode State in force is pushed
\* and the scope's own takes its place
Enter(ms, gm) == [mode |-> gm, scopes |-> Append(ms.scopes, ms.mode)]

\* an exit that pops the scope and leaves its Mode State in force
ExitKeeping(ms) ==
    [mode |-> ms.mode, scopes |-> SubSeq(ms.scopes, 1, Len(ms.scopes) - 1)]

\* leaving the scope, after its last statement or by an exception: the
\* Mode State pushed on entry is popped and put back in force
Exit(ms) ==
    [mode |-> ms.scopes[Len(ms.scopes)],
     scopes |-> SubSeq(ms.scopes, 1, Len(ms.scopes) - 1)]

\* the `with nura.autograd(...)` statements a call executes one after the
\* other, gms being their Mode States: each is entered and left
RECURSIVE Scoped(_, _)
Scoped(ms, gms) ==
    IF gms = <<>> THEN ms
    ELSE Scoped(Exit(Enter(ms, Head(gms))), Tail(gms))

(***************************************************************************)
(* Tensor.                                                                 *)
(***************************************************************************)
\* Tensor.__init__: a fresh tensor is a leaf with no grad and no node
Tensor(data, usegrad) ==
    [data |-> data, usegrad |-> usegrad, leaf |-> TRUE,
     grad |-> None, backfn |-> None]

\* Tensor.gradtensor / _is_differentiable: a floating-point element type
gradtensor(a) == IsFloat(a.dtype)

zeroslike(a) == Fill(a.dim, a.dtype, 0)
oneslike(a) == Fill(a.dim, a.dtype, 1)

\* utils.to / dtype.numpy: the array with its element type converted; the
\* model's payloads are integer-valued, which every element type holds
To(a, dtype) == [a EXCEPT !.dtype = dtype]

\* the array a leaf is created with: v, v+2, ... in row-major order
LeafData(dim, dtype, v) ==
    [dim |-> dim, dtype |-> dtype,
     data |-> [i \in 1..Nelem(dim) |-> v + 2 * (i - 1)]]

(***************************************************************************)
(* Operations: forward kernels and backward functions.                     *)
(***************************************************************************)
BinaryFns == {"Sub", "Mul"}
UnaryFns == {"ReLU"}

Kernel(fn) ==
    CASE fn = "Sub" -> "sub"
      [] fn = "Mul" -> "mul"

\* _ReLU: the 0/1 mask of the saved pre-activation input
ReLUMask(z) ==
    [dim |-> z.dim, dtype |-> "int",
     data |-> [i \in 1..Len(z.data) |-> IF z.data[i] > 0 THEN 1 ELSE 0]]

\* forward of a binary operation: the kernel on the two payloads
Forward2(fn, a, b) == Elementwise(Kernel(fn), a, b)

\* forward of a unary operation
Forward1(fn, z) ==
    To(Elementwise("mul", ReLUMask(z), z), z.dtype)

\* a backward function's return value: a tuple of gradients, or one
\* gradient returned unwrapped
Tuple(items) == [tuple |-> TRUE, items |-> items]
Unwrapped(item) == [tuple |-> FALSE, items |-> <<item>>]

\* the shapes a backward function multiplies together must broadcast
BackwardRaises(fn, saved, grad) ==
    CASE fn = "Mul" -> \E k \in 1..2 : ~Broadcastable(saved[k].dim, grad.dim)
      [] fn = "ReLU" -> ~Broadcastable(saved[1].dim, grad.dim)
      [] OTHER -> FALSE

\* a Function.backward whose Mul hands each operand its own value times
\* the gradient
FunctionBackwardOwnOperand(fn, saved, grad) ==
    CASE fn = "Sub" ->
           Tuple(<<grad, Elementwise("mul", grad, Fill(<<>>, "float", -1))>>)
      [] fn = "Mul" ->
           Tuple(<<Elementwise("mul", saved[1], grad),
                   Elementwise("mul", saved[2], grad)>>)
      [] fn = "ReLU" ->
           Unwrapped(Elementwise("mul", ReLUMask(saved[1]), grad))

\* Function.backward(context, grad), `saved` being the payloads of
\* context.tensors()
FunctionBackward(fn, saved, grad) ==
    CASE fn = "Sub" ->
           Tuple(<<grad, Elementwise("mul", grad, Fill(<<>>, "float", -1))>>)
      [] fn = "Mul" ->
           Tuple(<<Elementwise("mul", saved[2], grad),
                   Elementwise("mul", saved[1], grad)>>)
      [] fn = "ReLU" ->
           Unwrapped(Elementwise("mul", ReLUMask(saved[1]), grad))

\* Function.tangent(context, *grads) / Function.jvp, `saved` being the
\* payloads of context.tensors() and `grads` the tangents of those tensors
FunctionTangent(fn, saved, grads) ==
    CASE fn = "Sub" -> Elementwise("sub", grads[1], grads[2])
      [] fn = "Mul" ->
           Elementwise("add", Elementwise("mul", grads[1], saved[2]),
                              Elementwise("mul", grads[2], saved[1]))
      [] fn = "ReLU" -> Elementwise("mul", ReLUMask(saved[1]), grads[1])

(***************************************************************************)
(* Graph nodes.                                                            *)
(***************************************************************************)
\* Node(tensor, function, context); context is None for an accumulator
Node(t, function, context) ==
    [tensor |-> t, function |-> function, context |-> context]

\* a getnode that gives every leaf an accumulator, tracked or not
getnodeAnyLeaf(ts, t) ==
    IF ts[t].leaf THEN Node(t, "None", None)
    ELSE ts[t].backfn

\* getnode: a fresh accumulator node for a tracked leaf, else the producer
getnode(ts, t) ==
    IF ts[t].leaf /\ ts[t].usegrad THEN Node(t, "None", None)
    ELSE ts[t].backfn

RECURSIVE Nodes(_, _)
Nodes(ts, saved) ==
    IF saved = <<>> THEN <<>>
    ELSE (IF getnode(ts, Head(saved)) # None
          THEN <<getnode(ts, Head(saved))>> ELSE <<>>)
         \o Nodes(ts, Tail(saved))

\* Context: the tensors saved by forward
Context(saved) == [tensors |-> saved]

\* a Node.children that lists the node of a tensor saved twice only once
RECURSIVE NodesOnce(_, _)
NodesOnce(ts, saved) ==
    IF saved = <<>> THEN <<>>
    ELSE (IF /\ getnode(ts, Head(saved)) # None
             /\ \A k \in 1..Len(Tail(saved)) : Tail(saved)[k] # Head(saved)
          THEN <<getnode(ts, Head(saved))>> ELSE <<>>)
         \o NodesOnce(ts, Tail(saved))

childrenOnce(ts, node) ==
    IF node.context = None THEN None
    ELSE [list |-> NodesOnce(ts, node.context.tensors)]

\* Node.children: None for an accumulator, else the list of the nodes of
\* the saved tensors that have one
children(ts, node) ==
    IF node.context = None THEN None
    ELSE [list |-> Nodes(ts, node.context.tensors)]

\* the truth value Python gives `nodes`: neither None nor an empty list
Truthy(nodes) == nodes # None /\ nodes.list # <<>>

\* the payloads of the tensors saved in a node's context
Saved(ts, node) ==
    [k \in 1..Len(node.context.tensors) |-> ts[node.context.tensors[k]].data]

\* a Node.apply that iterates over an unwrapped gradient as over a tuple:
\* one item per index of its first axis
NodeApplyIterating(ts, node, grad) ==
    LET r == FunctionBackward(node.function, Saved(ts, node), grad)
        a == r.items[1]
        n == Nelem(Tail(a.dim))
    IN  IF r.tuple THEN r.items
        ELSE IF a.dim = <<>> THEN <<>>
        ELSE [i \in 1..a.dim[1] |->
                [dim |-> Tail(a.dim), dtype |-> a.dtype,
                 data |-> SubSeq(a.data, (i - 1) * n + 1, i * n)]]

\* Node.apply(grad, backward=True): the backward function's gradients as a
\* tuple, an unwrapped gradient becoming a one-element tuple
NodeApply(ts, node, grad) ==
    FunctionBackward(node.function, Saved(ts, node), grad).items

\* zip(nodes, grads): pairs up to the shorter of the two
Zip(nodes, grads) ==
    [k \in 1..(IF Len(nodes) <= Len(grads) THEN Len(nodes) ELSE Len(grads))
       |-> [node |-> nodes[k], grad |-> grads[k]]]

\* Context.usesgrad: some saved tensor requires gradients
usesgrad(ts, saved) == \E k \in 1..Len(saved) : ts[saved[k]].usegrad

\* a getgrads that gives every saved tensor a zero tangent
getgradsZeros(ts, saved) ==
    [k \in 1..Len(saved) |-> zeroslike(ts[saved[k]].data)]

\* getgrads: the stored tangent of every saved tensor, zeros where none
getgrads(ts, saved) ==
    [k \in 1..Len(saved) |->
       IF ts[saved[k]].grad # None THEN ts[saved[k]].grad
       ELSE zeroslike(ts[saved[k]].data)]

\* Node.apply(*grads, backward=False): the tangent function's result
NodeTangent(ts, node, grads) ==
    FunctionTangent(node.function, Saved(ts, node), grads)

\* a genout that does not look at what the saved tensors require
genoutUnconditional(ts, gm, out, t, function, saved) ==
    IF gm.usegrad /\ gm.reverse
    THEN [out EXCEPT !.backfn = Node(t, function, Context(saved)),
                     !.usegrad = TRUE, !.leaf = FALSE]
    ELSE IF gm.usegrad /\ gm.forward
         THEN [out EXCEPT !.usegrad = TRUE,
                          !.grad = NodeTangent(ts, Node(t, function,
                                                        Context(saved)),
                                               getgrads(ts, saved)),
                          !.leaf = FALSE]
    ELSE out

\* genout: the output, attached to the graph under the Reverse discipline
\* and given its tangent under the Forward discipline, when tracking applies
genout(ts, gm, out, t, function, saved) ==
    IF ~usesgrad(ts, saved) THEN out
    ELSE IF gm.usegrad /\ gm.reverse
         THEN [out EXCEPT !.backfn = Node(t, function, Context(saved)),
                          !.usegrad = TRUE, !.leaf = FALSE]
    ELSE IF gm.usegrad /\ gm.forward
         THEN [out EXCEPT !.usegrad = TRUE,
                          !.grad = NodeTangent(ts, Node(t, function,
                                                        Context(saved)),
                                               getgrads(ts, saved)),
                          !.leaf = FALSE]
    ELSE out

\* a Function.apply that also marks the tensors it saved as requiring
\* gradients when the output is tracked
ApplyOpMarkingInputs(ts, gm, fn, saved) ==
    LET data == IF Len(saved) = 2
                THEN Forward2(fn, ts[saved[1]].data, ts[saved[2]].data)
                ELSE Forward1(fn, ts[saved[1]].data)
        marked == [k \in 1..Len(ts) |->
                     IF /\ usesgrad(ts, saved)
                        /\ k \in {saved[i] : i \in 1..Len(saved)}
                     THEN [ts[k] EXCEPT !.usegrad = TRUE]
                     ELSE ts[k]]
    IN  Append(marked,
               genout(ts, gm, Tensor(data, FALSE), Len(ts) + 1, fn, saved))

\* Function.apply(*saved) on a table of tensors: the table with the output,
\* forward's result passed through genout, appended
ApplyOp(ts, gm, fn, saved) ==
    LET data == IF Len(saved) = 2
                THEN Forward2(fn, ts[saved[1]].data, ts[saved[2]].data)
                ELSE Forward1(fn, ts[saved[1]].data)
    IN  Append(ts, genout(ts, gm, Tensor(data, FALSE), Len(ts) + 1, fn, saved))

(***************************************************************************)
(* Broadcast-mismatch reduction.                                           *)
(***************************************************************************)
\* mismatch(tensor, grad), on the two arrays
mismatch(tensor, grad) ==
    tensor.dim # grad.dim /\ Len(tensor.dim) <= Len(grad.dim)

\* a sumdims that pads the shape on the left with size-1 dimensions
sumdimsPadOnes(tdim, gdim, tndim, gndim) ==
    LET paddim == PadLeft(tdim, gndim, 1)
    IN  {k - 1 : k \in {j \in 1..gndim : paddim[j] # gdim[j]}}

\* sumdims: the axes (0-based) where the shape padded on the left with
\* zeros differs from the gradient's shape
sumdims(tdim, gdim, tndim, gndim) ==
    LET paddim == PadLeft(tdim, gndim, 0)
    IN  {k - 1 : k \in {j \in 1..gndim : paddim[j] # gdim[j]}}

sumgrad(tensor, grad) ==
    LET dim == sumdims(tensor.dim, grad.dim, Len(tensor.dim), Len(grad.dim))
        keepdims == Len(tensor.dim) = Len(grad.dim)
    IN  SumArr(grad, dim, keepdims)

\* the gradient a leaf accumulates for an incoming gradient
accumgradOf(tensor, grad) ==
    IF mismatch(tensor, grad) THEN sumgrad(tensor, grad) ELSE grad

\* a pass that overwrote the stored gradient instead of adding to it
AccumulateOverwrite(oldgrad, accumgrad) == accumgrad

\* oldgrad + accumgrad
Accumulate(oldgrad, accumgrad) == Elementwise("add", oldgrad, accumgrad)

\* a queue that merges the pairs of one node: a pair whose node is already
\* waiting is not enqueued again
ExtendMerged(q, items) ==
    q \o SelectSeq(items,
                   LAMBDA it : \A k \in 1..Len(q) : q[k].node # it.node)

\* an extend that puts the items at the front of the queue
ExtendFront(q, items) == items \o q

\* queue.extend(items)
Extend(q, items) == q \o items

(***************************************************************************)
(* One iteration of the loop of _backward, as a function of the tensors    *)
(* and the queue: the new tensors and queue, or the array backend's error. *)
(***************************************************************************)
\* an iteration that raised, in a pass that restores on failure the
\* gradients the tensors had when it started
RaisedRestoring(ts, q) ==
    [ts |-> [t \in 1..Len(ts) |->
               [ts[t] EXCEPT !.grad = IF t <= Len(grad0) THEN grad0[t]
                                      ELSE None]],
     queue |-> q, raised |-> TRUE]

Raised(ts, q) == [ts |-> ts, queue |-> q, raised |-> TRUE]
Done(ts, q) == [ts |-> ts, queue |-> q, raised |-> FALSE]

BackwardIter(ts, q) ==
    LET node  == Head(q).node
        grad  == Head(q).grad
        nodes == children(ts, node)
        t     == node.tensor
        tensor == ts[t]
    IN  IF tensor.leaf
        THEN LET accumgrad == accumgradOf(tensor.data, grad)
                 oldgrad == IF tensor.grad # None THEN tensor.grad
                            ELSE zeroslike(tensor.data)
             IN  IF ~Broadcastable(oldgrad.dim, accumgrad.dim)
                 THEN Raised(ts, Tail(q))
                 ELSE Done([ts EXCEPT ![t].grad =
                              To(Accumulate(oldgrad, accumgrad),
                                 tensor.data.dtype)],
                           Tail(q))
        ELSE IF Truthy(nodes)
        THEN IF BackwardRaises(node.function, Saved(ts, node), grad)
             THEN Raised(ts, Tail(q))
             ELSE Done(ts, Extend(Tail(q),
                                  Zip(nodes.list, NodeApply(ts, node, grad))))
        ELSE Done(ts, Tail(q))

\* what the iteration on the head of the queue does, for the trace
Visit(ts, q) ==
    [tensor  |-> Head(q).node.tensor,
     accum   |-> Head(q).node.context = None,
     grad    |-> Head(q).grad,
     applied |-> /\ ~ts[Head(q).node.tensor].leaf
                 /\ Truthy(children(ts, Head(q).node))]

Grads(ts) == [t \in 1..Len(ts) |-> ts[t].grad]

(***************************************************************************)
(* Entry validation.                                                       *)
(***************************************************************************)
\* _backwarderr
backwarderr(ts, out, grad) ==
    IF ts[out].backfn = None THEN "NoGraphError"
    ELSE IF grad = None /\ Nelem(ts[out].data.dim) # 1
         THEN "AmbiguousSeedError"
    ELSE IF grad # None /\ ~gradtensor(grad)
         THEN "NonDifferentiableTypeError"
    ELSE "none"

SeedValues == {3}
\* the seed arguments a caller passes for an output: none, or an array of
\* the output's shape or of another shape
Seeds(ts, out) ==
    {None}
    \cup {Fill(d, "float", v) : d \in {ts[out].data.dim, <<>>, <<MaxDim + 1>>},
                                v \in SeedValues}
    \cup {Fill(ts[out].data.dim, "int", v) : v \in SeedValues}

\* a _graderr without the check that the output has a producer node
graderrNoProducerCheck(ts, inpt, out, grad) ==
    IF ~(\A k \in 1..Len(inpt) : gradtensor(ts[inpt[k]].data))
    THEN "NonDifferentiableTypeError"
    ELSE IF grad = None /\ Nelem(ts[out].data.dim) # 1
         THEN "AmbiguousSeedError"
    ELSE IF grad # None /\ ~gradtensor(grad)
         THEN "NonDifferentiableTypeError"
    ELSE "none"

\* _graderr
graderr(ts, inpt, out, grad) ==
    IF ~(\A k \in 1..Len(inpt) : gradtensor(ts[inpt[k]].data))
    THEN "NonDifferentiableTypeError"
    ELSE IF ts[out].backfn = None THEN "NoGraphError"
    ELSE IF grad = None /\ Nelem(ts[out].data.dim) # 1
         THEN "AmbiguousSeedError"
    ELSE IF grad # None /\ ~gradtensor(grad)
         THEN "NonDifferentiableTypeError"
    ELSE "none"

(***************************************************************************)
(* _grad: the mapping from requested inputs to gradients, and its loop.    *)
(***************************************************************************)
InMap(map, t) == \E k \in 1..Len(map) : map[k].key = t
Lookup(map, t) == map[CHOOSE k \in 1..Len(map) : map[k].key = t].value
Store(map, t, v) ==
    [k \in 1..Len(map) |-> IF map[k].key = t THEN [key |-> t, value |-> v]
                           ELSE map[k]]

\* mapify: a dict built from the pairs in order; a key met again keeps its
\* place and takes the later value
RECURSIVE mapifyFrom(_, _, _)
mapifyFrom(map, keys, values) ==
    IF keys = <<>> \/ values = <<>> THEN map
    ELSE mapifyFrom(IF InMap(map, Head(keys))
                    THEN Store(map, Head(keys), Head(values))
                    ELSE Append(map, [key |-> Head(keys),
                                      value |-> Head(values)]),
                    Tail(keys), Tail(values))

mapify(keys, values) == mapifyFrom(<<>>, keys, values)

\* inptmap.values()
Values(map) == [k \in 1..Len(map) |-> map[k].value]

\* one iteration of the loop of _grad on the head of the queue
GradIter(ts, q, map) ==
    LET node  == Head(q).node
        grad  == Head(q).grad
        nodes == children(ts, node)
        t     == node.tensor
        accumgrad == accumgradOf(ts[t].data, grad)
        hit   == InMap(map, t)
        map1  == IF hit
                 THEN Store(map, t, To(Accumulate(Lookup(map, t), accumgrad),
                                       ts[t].data.dtype))
                 ELSE map
    IN  IF node = None
        THEN [map |-> map, queue |-> Tail(q), raised |-> "AttributeError"]
        ELSE IF hit /\ ~Broadcastable(Lookup(map, t).dim, accumgrad.dim)
        THEN [map |-> map, queue |-> Tail(q), raised |-> "ShapeMismatchError"]
        ELSE IF Truthy(nodes)
        THEN IF BackwardRaises(node.function, Saved(ts, node), grad)
             THEN [map |-> map1, queue |-> Tail(q),
                   raised |-> "ShapeMismatchError"]
             ELSE [map |-> map1,
                   queue |-> Extend(Tail(q),
                                    Zip(nodes.list, NodeApply(ts, node, grad))),
                   raised |-> "none"]
        ELSE [map |-> map1, queue |-> Tail(q), raised |-> "none"]

\* the while loop of _grad, run to the end: the mapping, the pairs it
\* dequeued, and the error that stopped it, if one did.  (The result of the
\* iteration is bound through a one-element set, here and in the operators
\* below, so that it is evaluated once.)
RECURSIVE GradLoop(_, _, _, _)
GradLoop(ts, q, map, tr) ==
    IF q = <<>> THEN [map |-> map, trace |-> tr, raised |-> "none"]
    ELSE LET visit == IF Head(q).node = None
                      THEN [tensor |-> 0, accum |-> FALSE,
                            grad |-> Head(q).grad, applied |-> FALSE]
                      ELSE [tensor |-> Head(q).node.tensor,
                            accum |-> Head(q).node.context = None,
                            grad |-> Head(q).grad,
                            applied |-> Truthy(children(ts, Head(q).node))]
         IN  CHOOSE x \in
               {IF r.raised # "none"
                THEN [map |-> r.map, trace |-> tr1, raised |-> r.raised]
                ELSE GradLoop(ts, r.queue, r.map, tr1) :
                  r \in {GradIter(ts, q, map)}, tr1 \in {Append(tr, visit)}} :
               TRUE

\* _grad(inpt, out, grad)
gradOf(ts, inpt, out, grad) ==
    GradLoop(ts, <<[node |-> ts[out].backfn, grad |-> grad]>>,
             mapify(inpt, [k \in 1..Len(inpt) |-> zeroslike(ts[inpt[k]].data)]),
             <<>>)

RECURSIVE TuplesOfLen(_, _)
TuplesOfLen(S, n) ==
    IF n = 0 THEN {<<>>}
    ELSE {<<x>> \o t : x \in S, t \in TuplesOfLen(S, n - 1)}

\* the tuples of tensors a caller passes as inputs
InputTuples(S) == UNION {TuplesOfLen(S, n) : n \in 1..MaxInputs}

(***************************************************************************)
(* deepnet's Tensor.backward: the recursive pass through Node.apply and    *)
(* AccumulateGrad.apply, as a function of the table of tensors.            *)
(***************************************************************************)
\* _get_next_functions: one entry per saved tensor, in position: an
\* accumulator for a tracked leaf, else the tensor's grad_fn, None if it
\* has none
next_functions(ts, saved) ==
    [k \in 1..Len(saved) |-> getnode(ts, saved[k])]

\* Node.with_context(context, next_functions): the next functions are fixed
\* when the node is made
with_context(t, function, context, nfs) ==
    [tensor |-> t, function |-> function, context |-> context,
     next_functions |-> nfs]

\* pass_to_graph: with grad enabled and a saved tensor that uses grad, the
\* output gets use_grad True, the new node as grad_fn, and is_leaf False
pass_to_graph(ts, gm, out, t, function, saved) ==
    IF gm.usegrad /\ usesgrad(ts, saved)
    THEN [out EXCEPT !.usegrad = TRUE,
                     !.backfn = with_context(t, function, Context(saved),
                                             next_functions(ts, saved)),
                     !.leaf = FALSE]
    ELSE out

\* Sum.forward with dims None: the sum over every axis
SumForward(a) == SumArr(a, 0..(Len(a.dim) - 1), FALSE)

\* Function.apply of deepnet on a table of tensors: forward, then
\* pass_to_graph; the table with the output appended
FunctionApply(ts, gm, fn, saved) ==
    LET data == IF fn = "Sum" THEN SumForward(ts[saved[1]].data)
                ELSE Forward2(fn, ts[saved[1]].data, ts[saved[2]].data)
    IN  Append(ts, pass_to_graph(ts, gm, Tensor(data, FALSE), Len(ts) + 1,
                                 fn, saved))

\* what context.apply(grad) raises: Sum.backward is not implemented, and
\* the array backend refuses shapes that do not broadcast
ContextApplyRaises(ts, node, grad) ==
    IF node.function = "Sum" THEN "NotImplementedError"
    ELSE IF BackwardRaises(node.function, Saved(ts, node), grad)
    THEN "ShapeMismatchError"
    ELSE "none"

\* the pass so far: the tensors, the error raised ("none" if none), the
\* calls of apply made, and the gradients added to each tensor's grad
Pass(ts, raised, tr, cs) ==
    [ts |-> ts, raised |-> raised, trace |-> tr, contribs |-> cs]

\* AccumulateGrad.apply: grad starts as zeros_like(data), then
\* grad.data += grad.data in place, which keeps the stored shape
AccumulateGradApply(st, t, grad, call) ==
    LET oldgrad == IF st.ts[t].grad # None THEN st.ts[t].grad
                   ELSE zeroslike(st.ts[t].data)
        visit == [tensor |-> t, accum |-> TRUE, grad |-> grad,
                  applied |-> FALSE]
    IN  IF ~Assignable(grad, oldgrad.dim)
        THEN Pass(st.ts, "ShapeMismatchError", Append(st.trace, visit),
                  st.contribs)
        ELSE Pass([st.ts EXCEPT ![t].grad =
                     [oldgrad EXCEPT !.data =
                        Elementwise("add", oldgrad, grad).data]],
                  "none", Append(st.trace, visit),
                  [st.contribs EXCEPT ![t] =
                     Append(@, [call |-> call, incoming |-> grad,
                                grad |-> grad])])

RECURSIVE DeepApply(_, _, _, _)
RECURSIVE ApplyNextFunctions(_, _, _, _, _)

\* Node._apply_next_functions: apply of every next function that is not
\* None, each with the gradient of its own position
ApplyNextFunctions(st, nfs, grads, k, call) ==
    IF k > Len(nfs) \/ k > Len(grads) \/ st.raised # "none" THEN st
    ELSE ApplyNextFunctions(IF nfs[k] # None
                            THEN DeepApply(st, nfs[k], grads[k], call)
                            ELSE st,
                            nfs, grads, k + 1, call)

\* Node.apply(grad): context.apply(grad), then the next functions
DeepApply(st, node, grad, call) ==
    IF node.context = None
    THEN AccumulateGradApply(st, node.tensor, grad, call)
    ELSE LET visit == [tensor |-> node.tensor, accum |-> FALSE,
                       grad |-> grad, applied |-> TRUE]
         IN  IF ContextApplyRaises(st.ts, node, grad) # "none"
             THEN Pass(st.ts, ContextApplyRaises(st.ts, node, grad),
                       Append(st.trace, visit), st.contribs)
             ELSE ApplyNextFunctions(
                    Pass(st.ts, "none", Append(st.trace, visit), st.contribs),
                    node.next_functions,
                    NodeApply(st.ts, node, grad), 1, call)

(***************************************************************************)
(* The functions f a caller differentiates with vjp / jvp / jacrev /       *)
(* jacfwd: small programs over the tensors handed to them.                 *)
(***************************************************************************)
\* fmul(a, b) = a * b; frelu(z) = relu(z); fconst(z) = a fresh constant
\* that does not depend on z; fid(z) = z itself
Programs == {"fmul", "frelu", "fconst", "fid"}
Arity(f) == IF f = "fmul" THEN 2 ELSE 1

\* the array backend refuses the shapes f's forward kernel is given
FRaises(f, ts, args) ==
    f = "fmul" /\ ~Broadcastable(ts[args[1]].data.dim, ts[args[2]].data.dim)

\* f(*args) under the Mode State gm: the table with the tensors f created,
\* and the tensor f returned
RunF(f, ts, gm, args) ==
    CASE f = "fmul" ->
           [ts |-> ApplyOp(ts, gm, "Mul", <<args[1], args[2]>>),
            out |-> Len(ts) + 1]
      [] f = "frelu" ->
           [ts |-> ApplyOp(ts, gm, "ReLU", <<args[1]>>), out |-> Len(ts) + 1]
      [] f = "fconst" ->
           [ts |-> Append(ts, Tensor(Fill(<<>>, "float", 2), FALSE)),
            out |-> Len(ts) + 1]
      [] f = "fid" -> [ts |-> ts, out |-> args[1]]

\* the argument tuples f accepts
ArgTuples(f, S) == TuplesOfLen(S, Arity(f))

(***************************************************************************)
(* vjp, jvp and the Jacobians, as functions of the table of tensors.       *)
(***************************************************************************)
AllGradtensor(ts, inpt) == \A k \in 1..Len(inpt) : gradtensor(ts[inpt[k]].data)

\* _vjperr
vjperr(ts, inpt, vec) ==
    IF ~AllGradtensor(ts, inpt) THEN "NonDifferentiableTypeError"
    ELSE IF ~gradtensor(vec) THEN "NonDifferentiableTypeError"
    ELSE "none"

\* a _jvperr that checks the inputs and not the tangents
jvperrInputsOnly(ts, inpt, vec) ==
    IF ~AllGradtensor(ts, inpt) THEN "NonDifferentiableTypeError" ELSE "none"

\* _jvperr
jvperr(ts, inpt, vec) ==
    IF ~AllGradtensor(ts, inpt) THEN "NonDifferentiableTypeError"
    ELSE IF ~(\A k \in 1..Len(vec) : gradtensor(vec[k]))
         THEN "NonDifferentiableTypeError"
    ELSE "none"

\* _jacerr
jacerr(ts, inpt) ==
    IF ~AllGradtensor(ts, inpt) THEN "NonDifferentiableTypeError" ELSE "none"

\* the table with a copy of every input appended, and where the copies are
WithCopies(ts, copies) == ts \o copies
CopyIds(ts, copies) == [k \in 1..Len(copies) |-> Len(ts) + k]

\* t.mutated(usegrad=True, grad=None, leaf=True) for every input
LeafCopies(ts, inpt) ==
    [k \in 1..Len(inpt) |->
       [ts[inpt[k]] EXCEPT !.usegrad = TRUE, !.grad = None, !.leaf = TRUE]]

\* TangentCopies attaching the first tangent to every input
TangentCopiesFirst(ts, inpt, vec) ==
    [k \in 1..Len(inpt) |->
       [ts[inpt[k]] EXCEPT !.usegrad = TRUE, !.grad = vec[1]]]

\* t.mutated(usegrad=True, grad=v) for every input and its tangent
TangentCopies(ts, inpt, vec) ==
    [k \in 1..Len(inpt) |->
       [ts[inpt[k]] EXCEPT !.usegrad = TRUE, !.grad = vec[k]]]

\* _vjp(inpt, vec, f) on inputs already in the table: f runs once under the
\* Reverse discipline, then _grad runs from its output with vec as the seed
vjpOf(ts, inpt, vec, f) ==
    IF vjperr(ts, inpt, vec) # "none"
    THEN [raised |-> vjperr(ts, inpt, vec), fcalls |-> 0, trace |-> <<>>,
          out |-> None, grads |-> <<>>]
    ELSE IF FRaises(f, ts, inpt)
    THEN [raised |-> "ShapeMismatchError", fcalls |-> 1, trace |-> <<>>,
          out |-> None, grads |-> <<>>]
    ELSE CHOOSE x \in
           UNION {{[raised |-> r.raised, fcalls |-> 1, trace |-> r.trace,
                    out |-> run.ts[run.out], grads |-> Values(r.map)] :
                     r \in {gradOf(run.ts, inpt, run.out, vec)}} :
                  run \in {RunF(f, ts, autograd(TRUE, TRUE, FALSE), inpt)}} :
           TRUE

\* _jvp(inpt, f) on inputs already in the table: f runs once under the
\* Forward discipline and the tangent is read off its output
jvpOf(ts, inpt, f) ==
    IF FRaises(f, ts, inpt)
    THEN [raised |-> "ShapeMismatchError", fcalls |-> 1, out |-> None,
          grad |-> None]
    ELSE CHOOSE x \in
           {IF out.grad = None
            THEN [raised |-> "AssertionError", fcalls |-> 1,
                  out |-> out, grad |-> None]
            ELSE [raised |-> "none", fcalls |-> 1,
                  out |-> out, grad |-> out.grad] :
              out \in {LET run == RunF(f, ts, autograd(TRUE, FALSE, TRUE),
                                       inpt)
                       IN  run.ts[run.out]}} :
           TRUE

\* a getperts whose i-th array has its one at the next index
getpertsNext(a, i) ==
    [dim |-> a.dim, dtype |-> a.dtype,
     data |-> [j \in 1..Nelem(a.dim) |->
                 IF j = ((i + 1) % Nelem(a.dim)) + 1 THEN 1 ELSE 0]]

\* getperts: the i-th (0-based) one-hot array of the tensor's shape and type
getperts(a, i) ==
    [dim |-> a.dim, dtype |-> a.dtype,
     data |-> [j \in 1..Nelem(a.dim) |-> IF j = i + 1 THEN 1 ELSE 0]]

\* getjac: zeros of shape out.dim + tensor.dim, of the output's type
getjac(tensor, out) == Fill(out.dim \o tensor.dim, out.dtype, 0)

\* jac[row + (...,)] = jacrow, row being the i-th (0-based) index of out
SetRow(jac, i, jacrow, odim, tdim) ==
    LET vals == BroadcastTo(jacrow, tdim)
    IN  [jac EXCEPT !.data =
           [n \in 1..Len(jac.data) |->
              IF (n - 1) \div Nelem(tdim) = i
              THEN vals[((n - 1) % Nelem(tdim)) + 1] ELSE jac.data[n]]]

\* jac[(...,) + col] = jaccol, col being the j-th (0-based) index of tensor
SetCol(jac, j, jaccol, odim, tdim) ==
    LET vals == BroadcastTo(jaccol, odim)
    IN  [jac EXCEPT !.data =
           [n \in 1..Len(jac.data) |->
              IF (n - 1) % Nelem(tdim) = j
              THEN vals[((n - 1) \div Nelem(tdim)) + 1] ELSE jac.data[n]]]

\* the loop of jacrev from row i on: one _vjp per element of the output
RECURSIVE JacrevRows(_, _, _, _, _, _, _, _)
JacrevRows(ts, inpt, f, pos, out, i, jac, n) ==
    IF i = Nelem(out.dim) THEN [raised |-> "none", fcalls |-> n, jac |-> jac]
    ELSE CHOOSE x \in
           {IF r.raised # "none"
            THEN [raised |-> r.raised, fcalls |-> n + r.fcalls, jac |-> jac]
            ELSE IF ~Assignable(r.grads[pos + 1], tdim)
            THEN [raised |-> "ShapeMismatchError", fcalls |-> n + r.fcalls,
                  jac |-> jac]
            ELSE JacrevRows(ts, inpt, f, pos, out, i + 1,
                            SetRow(jac, i, r.grads[pos + 1], out.dim, tdim),
                            n + r.fcalls) :
              r \in {vjpOf(ts, inpt, getperts(out, i), f)},
              tdim \in {ts[inpt[pos + 1]].data.dim}} :
           TRUE

\* the loop of jacfwd from column j on: one _jvp per element of inpt[pos]
RECURSIVE JacfwdCols(_, _, _, _, _, _, _, _)
JacfwdCols(ts, colinpt, f, pos, out, j, jac, n) ==
    LET c == colinpt[pos + 1]
        tensor == ts[c].data
    IN  IF j = Nelem(tensor.dim)
        THEN [raised |-> "none", fcalls |-> n, jac |-> jac]
        ELSE CHOOSE x \in
               UNION {{IF r.raised # "none"
                       THEN [raised |-> r.raised, fcalls |-> n + r.fcalls,
                             jac |-> jac]
                       ELSE IF ~Assignable(r.grad, out.dim)
                       THEN [raised |-> "ShapeMismatchError",
                             fcalls |-> n + r.fcalls, jac |-> jac]
                       ELSE JacfwdCols(ts1, col1, f, pos, out, j + 1,
                                       SetCol(jac, j, r.grad, out.dim,
                                              tensor.dim),
                                       n + r.fcalls) :
                         r \in {jvpOf(ts1, col1, f)}} :
                      ts1 \in {Append(ts, [ts[c] EXCEPT
                                             !.usegrad = TRUE,
                                             !.grad = getperts(tensor, j)])},
                      col1 \in {[colinpt EXCEPT
                                   ![pos + 1] = Len(ts) + 1]}} :
               TRUE

\* jacrev(inpt, f, pos) on the table ts: validation, fresh leaf copies, one
\* run of f for the output, then one _vjp per element of the output
jacrevOf(ts0, inpt, f, pos) ==
    IF jacerr(ts0, inpt) # "none"
    THEN [raised |-> jacerr(ts0, inpt), fcalls |-> 0, out |-> None,
          jac |-> None]
    ELSE LET copies == LeafCopies(ts0, inpt)
             ts == WithCopies(ts0, copies)
             ids == CopyIds(ts0, copies)
         IN  IF FRaises(f, ts, ids)
             THEN [raised |-> "ShapeMismatchError", fcalls |-> 1,
                   out |-> None, jac |-> None]
             ELSE CHOOSE x \in
                    UNION {{[raised |-> r.raised, fcalls |-> r.fcalls,
                             out |-> out, jac |-> r.jac] :
                              r \in {JacrevRows(ts, ids, f, pos, out.data, 0,
                                                getjac(ts[ids[pos + 1]].data,
                                                       out.data), 1)}} :
                           out \in {LET run == RunF(f, ts,
                                                    autograd(TRUE, TRUE,
                                                             FALSE), ids)
                                    IN  run.ts[run.out]}} :
                    TRUE

\* jacfwd(inpt, f, pos) on the table ts: validation, one run of f with
\* tracking disabled for the output, then one _jvp per element of inpt[pos]
jacfwdOf(ts0, inpt, f, pos) ==
    IF jacerr(ts0, inpt) # "none"
    THEN [raised |-> jacerr(ts0, inpt), fcalls |-> 0, out |-> None,
          jac |-> None]
    ELSE IF FRaises(f, ts0, inpt)
    THEN [raised |-> "ShapeMismatchError", fcalls |-> 1, out |-> None,
          jac |-> None]
    ELSE LET copies == [k \in 1..Len(inpt) |->
                          [ts0[inpt[k]] EXCEPT
                             !.usegrad = TRUE,
                             !.grad = zeroslike(ts0[inpt[k]].data)]]
             colinpt == [k \in 1..Len(inpt) |->
                           IF k = pos + 1 THEN inpt[k] ELSE Len(ts0) + k]
         IN  CHOOSE x \in
               UNION {{[raised |-> r.raised, fcalls |-> r.fcalls,
                        out |-> out, jac |-> r.jac] :
                         r \in {JacfwdCols(WithCopies(ts0, copies), colinpt,
                                           f, pos, out.data, 0,
                                           getjac(ts0[inpt[pos + 1]].data,
                                                  out.data), 1)}} :
                      out \in {LET run == RunF(f, ts0,
                                               autograd(FALSE, TRUE, FALSE),
                                               inpt)
                               IN  run.ts[run.out]}} :
               TRUE

(***************************************************************************)
(* deepnet's vjp, as a function of the table of tensors.                   *)
(***************************************************************************)
\* the functions a caller hands to deepnet's vjp
DeepPrograms == {"fmul", "fconst", "fid"}

\* func(*primals) with grad enabled, through deepnet's Function.apply
DeepRunF(f, ts, args) ==
    CASE f = "fmul" ->
           [ts |-> FunctionApply(ts, autograd(TRUE, TRUE, FALSE), "Mul",
                                 <<args[1], args[2]>>),
            out |-> Len(ts) + 1]
      [] f = "fconst" ->
           [ts |-> Append(ts, Tensor(Fill(<<>>, "float", 2), FALSE)),
            out |-> Len(ts) + 1]
      [] f = "fid" -> [ts |-> ts, out |-> args[1]]

\* _vjp_pre_process: without use_graph every primal is replaced by
\* primal.detach().clone(); the primal gets use_grad True, and so does
\* the cotangent.  The table with the clones appended, and the primals
DeepPreProcess(ts, primals, cotangent, use_graph) ==
    LET clones == [k \in 1..Len(primals) |->
                     Tensor(ts[primals[k]].data, TRUE)]
        ts1 == IF use_graph
               THEN [t \in 1..Len(ts) |->
                       IF \E k \in 1..Len(primals) : primals[k] = t
                       THEN [ts[t] EXCEPT !.usegrad = TRUE] ELSE ts[t]]
               ELSE ts \o clones
    IN  [ts |-> [ts1 EXCEPT ![cotangent].usegrad = TRUE],
         primals |-> IF use_graph THEN primals ELSE CopyIds(ts, clones)]

\* the loop of vjp over its stack from the top: a leaf node (an
\* AccumulateGrad) yields its cotangent, an intermediate node applies its
\* context and pushes the next functions that are not None
RECURSIVE DeepVjpLoop(_, _, _)
DeepVjpLoop(ts, stack, cotangents) ==
    IF stack = <<>> THEN [raised |-> "none", cotangents |-> cotangents]
    ELSE LET top == stack[Len(stack)]
             rest == SubSeq(stack, 1, Len(stack) - 1)
         IN  IF top.node = None THEN DeepVjpLoop(ts, rest, cotangents)
             ELSE IF top.node.context = None
             THEN DeepVjpLoop(ts, rest, Append(cotangents, top.grad))
             ELSE IF ContextApplyRaises(ts, top.node, top.grad) # "none"
             THEN [raised |-> ContextApplyRaises(ts, top.node, top.grad),
                   cotangents |-> cotangents]
             ELSE DeepVjpLoop(
                    ts,
                    rest \o SelectSeq(Zip(top.node.next_functions,
                                          NodeApply(ts, top.node, top.grad)),
                                      LAMBDA it : it.node # None),
                    cotangents)

\* tuple(reversed(cotangents))
Reversed(xs) == [k \in 1..Len(xs) |-> xs[Len(xs) + 1 - k]]

\* _vjp_post_process: without use_graph the output loses its grad_fn and
\* gets use_grad False, is_leaf False
DeepPostProcess(ts, out, use_graph) ==
    IF use_graph THEN ts
    ELSE [ts EXCEPT ![out].usegrad = FALSE, ![out].backfn = None,
                    ![out].leaf = FALSE]

\* vjp(primals, cotangent, func, use_graph): the table afterwards (the
\* caller's tensors first), the error raised, and what is returned.
\* `clones` tells whether Tensor.clone succeeds: Clone.forward passes the
\* bound method a.dtype as dtype, which _preprocess_tensor_init refuses
\* unless Tensor is the one of deepnet/tensors.py
DeepVjpOf(ts, primals, cotangent, func, use_graph, clones) ==
    IF ~(AllGradtensor(ts, primals) /\ gradtensor(ts[cotangent].data))
    THEN [ts |-> ts, raised |-> "NonDifferentiableTypeError", out |-> None,
          cotangents |-> <<>>]
    ELSE IF ~use_graph /\ ~clones
    THEN [ts |-> ts, raised |-> "AssertionError", out |-> None,
          cotangents |-> <<>>]
    ELSE CHOOSE x \in
           {IF FRaises(func, pre.ts, pre.primals)
            THEN [ts |-> pre.ts, raised |-> "ShapeMismatchError",
                  out |-> None, cotangents |-> <<>>]
            ELSE CHOOSE y \in
                   UNION {{[ts |-> DeepPostProcess(run.ts, run.out, use_graph),
                            raised |-> r.raised,
                            out |-> run.out,
                            cotangents |-> Reversed(r.cotangents)] :
                             r \in {DeepVjpLoop(
                                      run.ts,
                                      <<[node |-> run.ts[run.out].backfn,
                                         grad |-> run.ts[cotangent].data]>>,
                                      <<>>)}} :
                          run \in {DeepRunF(func, pre.ts, pre.primals)}} :
                   TRUE :
              pre \in {DeepPreProcess(ts, primals, cotangent, use_graph)}} :
           TRUE

(***************************************************************************)
(* Actions of the program.                                                 *)
(***************************************************************************)
Init ==
    /\ tensors = <<>>
    /\ gradmode = DefaultMode
    /\ scopes = <<>>
    /\ queue = <<>>
    /\ mode = "idle"
    /\ err = "none"
    /\ result = None
    /\ calls = 0
    /\ trace = <<>>
    /\ grad0 = <<>>
    /\ contribs = <<>>
    /\ fcalls = 0
    /\ nops = 0
    /\ lastcall = None

\* the program is between differentiation calls
Between == mode = "idle" /\ lastcall = None

\* what is recorded about the running/last call
callvars == <<err, result, trace, grad0, fcalls, lastcall>>

\* the last call has returned to (or raised into) its caller, which goes on:
\* the record of the call, its error, its result and its trace is dropped
Return ==
    /\ mode = "idle"
    /\ lastcall # None
    /\ err' = "none"
    /\ lastcall' = None
    /\ result' = None
    /\ trace' = <<>>
    /\ grad0' = <<>>
    /\ fcalls' = 0
    /\ UNCHANGED <<tensors, gradmode, scopes, queue, mode, calls, contribs,
                   nops>>

\* nura.tensor(data, usegrad, dtype): only floating-point tensors track
CreateLeaf(dim, dtype, usegrad) ==
    /\ Between
    /\ Len(tensors) < MaxTensors
    /\ Len(tensors) - nops < MaxLeaves
    /\ usegrad => IsFloat(dtype)
    /\ tensors' = Append(tensors,
                          Tensor(LeafData(dim, dtype,
                                          LeafValue(Len(tensors) - nops + 1)),
                                 usegrad))
    /\ contribs' = Append(contribs, <<>>)
    /\ UNCHANGED <<gradmode, scopes, queue, mode, calls, nops>>
    /\ UNCHANGED callvars

\* Function.apply on two tensors: forward, then genout
ApplyBinary(fn, a, b) ==
    /\ Between
    /\ Len(tensors) < MaxTensors
    /\ nops < MaxOps
    /\ Broadcastable(tensors[a].data.dim, tensors[b].data.dim)
    /\ tensors' = ApplyOp(tensors, gradmode, fn, <<a, b>>)
    /\ contribs' = Append(contribs, <<>>)
    /\ nops' = nops + 1
    /\ UNCHANGED <<gradmode, scopes, queue, mode, calls>>
    /\ UNCHANGED callvars

\* Function.apply on one tensor
ApplyUnary(fn, a) ==
    /\ Between
    /\ Len(tensors) < MaxTensors
    /\ nops < MaxOps
    /\ tensors' = ApplyOp(tensors, gradmode, fn, <<a>>)
    /\ contribs' = Append(contribs, <<>>)
    /\ nops' = nops + 1
    /\ UNCHANGED <<gradmode, scopes, queue, mode, calls>>
    /\ UNCHANGED callvars

\* backward(out, grad): validation, the default seed, and the seeding of
\* the queue of _backward
CallBackward(out, seed) ==
    /\ Between
    /\ calls < MaxCalls
    /\ err' = backwarderr(tensors, out, seed)
    /\ trace' = <<>>
    /\ grad0' = Grads(tensors)
    /\ fcalls' = 0
    /\ result' = None
    /\ lastcall' = [api |-> "backward", out |-> out, seed |-> seed]
    /\ IF backwarderr(tensors, out, seed) = "none"
       THEN /\ queue' = <<[node |-> tensors[out].backfn,
                           grad |-> IF seed = None
                                    THEN oneslike(tensors[out].data)
                                    ELSE seed]>>
            /\ mode' = "backward"
            /\ calls' = calls + 1
       ELSE UNCHANGED <<queue, mode, calls>>
    /\ UNCHANGED <<tensors, gradmode, scopes, contribs, nops>>

\* Tensor.backward(grad) of deepnet: the assertion that the tensor has a
\* grad_fn, the default seed, and the whole recursive pass
TensorBackward(out, seed) ==
    /\ Between
    /\ calls < MaxCalls
    /\ lastcall' = [api |-> "Tensor.backward", out |-> out, seed |-> seed]
    /\ grad0' = Grads(tensors)
    /\ fcalls' = 0
    /\ result' = None
    /\ IF tensors[out].backfn = None
       THEN /\ err' = "NoGraphError"
            /\ trace' = <<>>
            /\ UNCHANGED <<tensors, contribs, calls>>
       ELSE \E r \in {DeepApply(Pass(tensors, "none", <<>>, contribs),
                                 tensors[out].backfn,
                                 IF seed = None THEN oneslike(tensors[out].data)
                                 ELSE seed,
                                 calls)} :
                /\ err' = r.raised
                /\ trace' = r.trace
                /\ tensors' = r.ts
                /\ contribs' = r.contribs
                /\ calls' = calls + 1
    /\ UNCHANGED <<gradmode, scopes, queue, mode, nops>>

\* Function.apply of deepnet on two tensors
DeepnetBinary(fn, a, b) ==
    /\ Between
    /\ Len(tensors) < MaxTensors
    /\ nops < MaxOps
    /\ Broadcastable(tensors[a].data.dim, tensors[b].data.dim)
    /\ tensors' = FunctionApply(tensors, gradmode, fn, <<a, b>>)
    /\ contribs' = Append(contribs, <<>>)
    /\ nops' = nops + 1
    /\ UNCHANGED <<gradmode, scopes, queue, mode, calls>>
    /\ UNCHANGED callvars

\* f.sum(a) of deepnet
DeepnetSum(a) ==
    /\ Between
    /\ Len(tensors) < MaxTensors
    /\ nops < MaxOps
    /\ tensors' = FunctionApply(tensors, gradmode, "Sum", <<a>>)
    /\ contribs' = Append(contribs, <<>>)
    /\ nops' = nops + 1
    /\ UNCHANGED <<gradmode, scopes, queue, mode, calls>>
    /\ UNCHANGED callvars

\* vjp of deepnet: the caller's tensors as the call leaves them; the
\* output and the cotangents it returns
DeepnetVjp(primals, cotangent, func, use_graph, clones) ==
    /\ Between
    /\ calls < MaxCalls
    /\ lastcall' = [api |-> "deepnet.vjp", inpt |-> primals,
                    vec |-> cotangent, f |-> func, use_graph |-> use_graph]
    /\ grad0' = Grads(tensors)
    /\ trace' = <<>>
    /\ \E r \in {DeepVjpOf(tensors, primals, cotangent, func, use_graph,
                           clones)} :
         /\ err' = r.raised
         /\ fcalls' = IF r.raised \in {"NonDifferentiableTypeError",
                                       "AssertionError"} THEN 0 ELSE 1
         /\ tensors' = SubSeq(r.ts, 1, Len(tensors))
         /\ result' = IF r.raised # "none" THEN None
                       ELSE [out |-> r.ts[r.out], cotangents |-> r.cotangents]
    /\ calls' = calls + 1
    /\ UNCHANGED <<gradmode, scopes, queue, mode, contribs, nops>>

\* a grad that stores what it accumulated in the grad of the requested
\* tensors, as backward does for leaves
CallGradStoring(inpt, out, seed) ==
    /\ Between
    /\ lastcall' = [api |-> "grad", inpt |-> inpt, out |-> out, seed |-> seed]
    /\ grad0' = Grads(tensors)
    /\ fcalls' = 0
    /\ IF graderr(tensors, inpt, out, seed) # "none"
       THEN /\ err' = graderr(tensors, inpt, out, seed)
            /\ trace' = <<>>
            /\ result' = None
            /\ tensors' = tensors
       ELSE \E r \in {gradOf(tensors, inpt, out,
                               IF seed = None THEN oneslike(tensors[out].data)
                               ELSE seed)} :
                /\ err' = r.raised
                /\ trace' = r.trace
                /\ result' = IF r.raised = "none" THEN Values(r.map) ELSE None
                /\ tensors' = [t \in Ids |->
                                 IF InMap(r.map, t)
                                 THEN [tensors[t] EXCEPT
                                         !.grad = Lookup(r.map, t)]
                                 ELSE tensors[t]]
    /\ UNCHANGED <<gradmode, scopes, queue, mode, calls, contribs, nops>>

\* grad(inpt, out, grad): validation, the default seed, the loop of _grad
\* and the tuple of the mapping's values
CallGrad(inpt, out, seed) ==
    /\ Between
    /\ lastcall' = [api |-> "grad", inpt |-> inpt, out |-> out, seed |-> seed]
    /\ grad0' = Grads(tensors)
    /\ fcalls' = 0
    /\ IF graderr(tensors, inpt, out, seed) # "none"
       THEN /\ err' = graderr(tensors, inpt, out, seed)
            /\ trace' = <<>>
            /\ result' = None
       ELSE \E r \in {gradOf(tensors, inpt, out,
                               IF seed = None THEN oneslike(tensors[out].data)
                               ELSE seed)} :
                /\ err' = r.raised
                /\ trace' = r.trace
                /\ result' = IF r.raised = "none" THEN Values(r.map) ELSE None
    /\ UNCHANGED <<tensors, gradmode, scopes, queue, mode, calls, contribs,
                   nops>>

\* vjp(inpt, vec, f): validation, fresh leaf copies of the inputs, _vjp, and
\* the output returned detached from the graph
CallVjp(inpt, vec, f) ==
    /\ Between
    /\ lastcall' = [api |-> "vjp", inpt |-> inpt, vec |-> vec, f |-> f]
    /\ grad0' = Grads(tensors)
    /\ IF vjperr(tensors, inpt, vec) # "none"
       THEN /\ err' = vjperr(tensors, inpt, vec)
            /\ fcalls' = 0
            /\ trace' = <<>>
            /\ result' = None
       ELSE LET copies == LeafCopies(tensors, inpt)
            IN  \E r \in {vjpOf(WithCopies(tensors, copies),
                              CopyIds(tensors, copies), vec, f)} :
                /\ err' = r.raised
                /\ fcalls' = r.fcalls
                /\ trace' = r.trace
                /\ result' = IF r.raised # "none" THEN None
                             ELSE [out |-> [r.out EXCEPT !.usegrad = FALSE,
                                                         !.backfn = None,
                                                         !.leaf = TRUE],
                                   grads |-> r.grads]
    /\ \E ms \in {Scoped(ModeState(gradmode, scopes),
                       IF vjperr(tensors, inpt, vec) # "none" THEN <<>>
                       ELSE <<autograd(TRUE, TRUE, FALSE)>>)} :
         gradmode' = ms.mode /\ scopes' = ms.scopes
    /\ UNCHANGED <<tensors, queue, mode, calls, contribs, nops>>

\* jvp(inpt, vec, f): validation, copies of the inputs carrying their
\* tangents, _jvp, and the output returned as an untracked leaf
CallJvp(inpt, vec, f) ==
    /\ Between
    /\ lastcall' = [api |-> "jvp", inpt |-> inpt, vec |-> vec, f |-> f]
    /\ grad0' = Grads(tensors)
    /\ trace' = <<>>
    /\ IF jvperr(tensors, inpt, vec) # "none"
       THEN /\ err' = jvperr(tensors, inpt, vec)
            /\ fcalls' = 0
            /\ result' = None
       ELSE LET copies == TangentCopies(tensors, inpt, vec)
            IN  \E r \in {jvpOf(WithCopies(tensors, copies),
                              CopyIds(tensors, copies), f)} :
                /\ err' = r.raised
                /\ fcalls' = r.fcalls
                /\ result' = IF r.raised # "none" THEN None
                             ELSE [out |-> [r.out EXCEPT !.usegrad = FALSE,
                                                         !.leaf = TRUE],
                                   grad |-> r.grad]
    /\ \E ms \in {Scoped(ModeState(gradmode, scopes),
                       IF jvperr(tensors, inpt, vec) # "none" THEN <<>>
                       ELSE <<autograd(TRUE, FALSE, TRUE)>>)} :
         gradmode' = ms.mode /\ scopes' = ms.scopes
    /\ UNCHANGED <<tensors, queue, mode, calls, contribs, nops>>

\* jacrev(inpt, f, pos)
CallJacrev(inpt, f, pos) ==
    /\ Between
    /\ lastcall' = [api |-> "jacrev", inpt |-> inpt, f |-> f, pos |-> pos]
    /\ grad0' = Grads(tensors)
    /\ trace' = <<>>
    /\ \E r \in {jacrevOf(tensors, inpt, f, pos)} :
         /\ err' = r.raised
         /\ fcalls' = r.fcalls
         /\ result' = IF r.raised # "none" THEN None
                      ELSE [out |-> r.out, jac |-> r.jac]
         /\ \E ms \in {Scoped(ModeState(gradmode, scopes),
                            [k \in 1..r.fcalls |->
                               autograd(TRUE, TRUE, FALSE)])} :
              gradmode' = ms.mode /\ scopes' = ms.scopes
    /\ UNCHANGED <<tensors, queue, mode, calls, contribs, nops>>

\* jacfwd(inpt, f, pos)
CallJacfwd(inpt, f, pos) ==
    /\ Between
    /\ lastcall' = [api |-> "jacfwd", inpt |-> inpt, f |-> f, pos |-> pos]
    /\ grad0' = Grads(tensors)
    /\ trace' = <<>>
    /\ \E r \in {jacfwdOf(tensors, inpt, f, pos)} :
         /\ err' = r.raised
         /\ fcalls' = r.fcalls
         /\ result' = IF r.raised # "none" THEN None
                      ELSE [out |-> r.out, jac |-> r.jac]
         /\ \E ms \in {Scoped(ModeState(gradmode, scopes),
                            [k \in 1..r.fcalls |->
                             IF k = 1 THEN autograd(FALSE, TRUE, FALSE)
                             ELSE autograd(TRUE, FALSE, TRUE)])} :
              gradmode' = ms.mode /\ scopes' = ms.scopes
    /\ UNCHANGED <<tensors, queue, mode, calls, contribs, nops>>

\* t.mutated(usegrad=True, grad=v): a copy of the tensor that carries the
\* tangent v
AttachTangent(a, v) ==
    /\ Between
    /\ Len(tensors) < MaxTensors
    /\ Len(tensors) - nops < MaxLeaves
    /\ gradtensor(tensors[a].data)
    /\ tensors' = Append(tensors, [tensors[a] EXCEPT !.usegrad = TRUE,
                                                     !.grad = v])
    /\ contribs' = Append(contribs, <<>>)
    /\ UNCHANGED <<gradmode, scopes, queue, mode, calls, nops>>
    /\ UNCHANGED callvars

\* tensor.mutate(usegrad=...): the flag of a tensor the program holds is
\* set in place
Mutate(t, usegrad) ==
    /\ Between
    /\ tensors[t].usegrad # usegrad
    /\ usegrad => gradtensor(tensors[t].data)
    /\ tensors' = [tensors EXCEPT ![t].usegrad = usegrad]
    /\ UNCHANGED <<gradmode, scopes, queue, mode, calls, contribs, nops>>
    /\ UNCHANGED callvars

\* `with nura.autograd(...):` entered by the program
EnterScope(gm) ==
    /\ Between
    /\ Len(scopes) < MaxScopes
    /\ \E ms \in {Enter(ModeState(gradmode, scopes), gm)} :
         gradmode' = ms.mode /\ scopes' = ms.scopes
    /\ UNCHANGED <<tensors, queue, mode, calls, contribs, nops>>
    /\ UNCHANGED callvars

\* the program leaves its innermost scope: at the end of the block, or
\* because the call the block made last raised
ExitScope(raising) ==
    /\ mode = "idle"
    /\ scopes # <<>>
    /\ IF raising THEN lastcall # None /\ err # "none" ELSE Between
    /\ \E ms \in {Exit(ModeState(gradmode, scopes))} :
         gradmode' = ms.mode /\ scopes' = ms.scopes
    /\ UNCHANGED <<tensors, queue, mode, calls, contribs, nops>>
    /\ UNCHANGED callvars

\* one iteration of the while loop of _backward
BackwardStep ==
    /\ mode = "backward"
    /\ queue # <<>>
    /\ \E r \in {BackwardIter(tensors, queue)}, v \in {Visit(tensors, queue)} :
           /\ tensors' = r.ts
           /\ trace' = Append(trace, v)
           /\ contribs' =
                IF tensors[v.tensor].leaf /\ ~r.raised
                THEN [contribs EXCEPT ![v.tensor] =
                        Append(@, [call |-> calls,
                                   incoming |-> v.grad,
                                   grad |-> accumgradOf(tensors[v.tensor].data,
                                                        v.grad)])]
                ELSE contribs
           /\ IF r.raised
              THEN /\ err' = "ShapeMismatchError"
                   /\ queue' = <<>>
                   /\ mode' = "idle"
              ELSE /\ err' = err
                   /\ queue' = r.queue
                   /\ mode' = IF r.queue = <<>> THEN "idle" ELSE "backward"
    /\ UNCHANGED <<gradmode, scopes, result, calls, grad0, fcalls, nops,
                   lastcall>>

Next ==
    \/ \E d \in LeafShapes, dt \in DTypes, g \in BOOLEAN :
          CreateLeaf(d, dt, g)
    \/ \E fn \in BinaryFns, a \in Ids, b \in Ids : ApplyBinary(fn, a, b)
    \/ \E fn \in UnaryFns, a \in Ids : ApplyUnary(fn, a)
    \/ \E out \in Ids : \E seed \in Seeds(tensors, out) :
          CallBackward(out, seed)
    \/ BackwardStep
    \/ Return

Spec == Init /\ [][Next]_vars


(***************************************************************************)
(* Programs whose two leaves have shapes of rank up to MaxGradRank: one    *)
(* operation broadcasts them against each other, then backward runs.       *)
(***************************************************************************)
GradShapes == ShapesUpTo(MaxGradRank, MaxDim)

InitReduce ==
    /\ \E d1 \in GradShapes, d2 \in GradShapes, g \in BOOLEAN :
         tensors = <<Tensor(LeafData(d1, "float", LeafValue(1)), TRUE),
                     Tensor(LeafData(d2, "float", LeafValue(2)), g)>>
    /\ gradmode = DefaultMode
    /\ scopes = <<>>
    /\ queue = <<>>
    /\ mode = "idle"
    /\ err = "none"
    /\ result = None
    /\ calls = 0
    /\ trace = <<>>
    /\ grad0 = <<>>
    /\ contribs = <<<<>>, <<>>>>
    /\ fcalls = 0
    /\ nops = 0
    /\ lastcall = None

\* the cotangents a caller passes to vjp
Vecs ==
    {Fill(d, "float", v) : d \in {<<>>, <<MaxDim>>}, v \in SeedValues}
    \cup {Fill(<<>>, "int", v) : v \in SeedValues}

\* the tangent tuples a caller passes to jvp: the k-th has the k-th input's
\* shape and is filled with k
RECURSIVE Tangents(_, _, _)
Tangents(ts, inpt, k) ==
    IF k > Len(inpt) THEN {<<>>}
    ELSE {<<Fill(ts[inpt[k]].data.dim, dt, k)>> \o rest :
            dt \in DTypes, rest \in Tangents(ts, inpt, k + 1)}

\* a seed of the output's own shape
ShapedSeeds(ts, out) ==
    {Fill(ts[out].data.dim, "float", v) : v \in SeedValues}

NextReduce ==
    \/ \E fn \in BinaryFns, a \in Ids, b \in Ids : ApplyBinary(fn, a, b)
    \/ \E out \in Ids : \E seed \in ShapedSeeds(tensors, out) :
          CallBackward(out, seed)
    \/ BackwardStep
    \/ Return

SpecReduce == InitReduce /\ [][NextReduce]_vars

(***************************************************************************)
(* The functional API (grad, vjp, jvp, jacrev, jacfwd) called on the       *)
(* graphs a program builds, before or after backward passes over them.     *)
(***************************************************************************)
\* the tensor a program made last, the one it differentiates
Outputs == {t \in Ids : t = Len(tensors)}

NextApi ==
    \/ \E dim \in {<<>>, <<MaxDim>>}, dtype \in DTypes, usegrad \in BOOLEAN :
          CreateLeaf(dim, dtype, usegrad)
    \/ \E fn \in BinaryFns, a \in Ids, b \in Ids : ApplyBinary(fn, a, b)
    \/ \E out \in Outputs : \E seed \in ShapedSeeds(tensors, out) \cup {None} :
          calls < MaxApiPasses /\ CallBackward(out, seed)
    \/ BackwardStep
    \/ \E inpt \in InputTuples(Ids), out \in Outputs :
          \E seed \in Seeds(tensors, out) : CallGrad(inpt, out, seed)
    \/ \E f \in Programs : \E inpt \in ArgTuples(f, Ids), vec \in Vecs :
          CallVjp(inpt, vec, f)
    \/ \E f \in Programs : \E inpt \in ArgTuples(f, Ids) :
          \E vec \in Tangents(tensors, inpt, 1) : CallJvp(inpt, vec, f)
    \/ \E f \in Programs : \E inpt \in ArgTuples(f, Ids) :
          \E pos \in 0..(Len(inpt) - 1) : CallJacrev(inpt, f, pos)
    \/ \E f \in Programs : \E inpt \in ArgTuples(f, Ids) :
          \E pos \in 0..(Len(inpt) - 1) : CallJacfwd(inpt, f, pos)
    \/ Return

SpecApi == Init /\ [][NextApi]_vars

(***************************************************************************)
(* Programs that open and close scopes of the Mode State around their      *)
(* operations and their vjp / jvp / jacrev / jacfwd calls.                 *)
(***************************************************************************)
\* the Mode States the scopes of the source put in force
ScopeModes ==
    {autograd(TRUE, TRUE, FALSE), autograd(TRUE, FALSE, TRUE),
     autograd(FALSE, TRUE, FALSE)}

NextMode ==
    \/ \E dtype \in DTypes, usegrad \in BOOLEAN :
          CreateLeaf(<<MaxDim>>, dtype, usegrad)
    \/ \E fn \in BinaryFns, a \in Ids, b \in Ids : ApplyBinary(fn, a, b)
    \/ \E fn \in UnaryFns, a \in Ids : ApplyUnary(fn, a)
    \/ \E a \in Ids : AttachTangent(a, oneslike(tensors[a].data))
    \/ \E gm \in ScopeModes : EnterScope(gm)
    \/ \E raising \in BOOLEAN : ExitScope(raising)
    \/ \E f \in Programs : \E inpt \in ArgTuples(f, Outputs), vec \in Vecs :
          CallVjp(inpt, vec, f)
    \/ \E f \in Programs : \E inpt \in ArgTuples(f, Outputs) :
          \E vec \in Tangents(tensors, inpt, 1) : CallJvp(inpt, vec, f)
    \/ \E f \in Programs : \E inpt \in ArgTuples(f, Outputs) :
          \E pos \in 0..(Len(inpt) - 1) : CallJacrev(inpt, f, pos)
    \/ \E f \in Programs : \E inpt \in ArgTuples(f, Outputs) :
          \E pos \in 0..(Len(inpt) - 1) : CallJacfwd(inpt, f, pos)
    \/ Return

SpecMode == Init /\ [][NextMode]_vars

(***************************************************************************)
(* Programs that also change the flags of their tensors in place between  *)
(* the operations and the backward passes.                                 *)
(***************************************************************************)
NextMutate ==
    \/ \E d \in LeafShapes, dt \in DTypes, g \in BOOLEAN :
          CreateLeaf(d, dt, g)
    \/ \E fn \in BinaryFns, a \in Ids, b \in Ids : ApplyBinary(fn, a, b)
    \/ \E fn \in UnaryFns, a \in Ids : ApplyUnary(fn, a)
    \/ \E t \in Ids, usegrad \in BOOLEAN : Mutate(t, usegrad)
    \/ \E out \in Ids : \E seed \in Seeds(tensors, out) :
          CallBackward(out, seed)
    \/ BackwardStep
    \/ Return

SpecMutate == Init /\ [][NextMutate]_vars

(***************************************************************************)
(* Programs whose passes are run to their end: the loop of _backward goes  *)
(* on to its next iteration for as long as the queue holds a pair.         *)
(***************************************************************************)
NextLive ==
    \/ \E d \in {<<>>, <<MaxDim>>}, g \in BOOLEAN : CreateLeaf(d, "float", g)
    \/ \E fn \in BinaryFns, a \in Ids, b \in Ids : ApplyBinary(fn, a, b)
    \/ \E fn \in UnaryFns, a \in Ids : ApplyUnary(fn, a)
    \/ \E out \in Outputs : \E seed \in Seeds(tensors, out) :
          CallBackward(out, seed)
    \/ BackwardStep
    \/ \E inpt \in TuplesOfLen(Ids, 1), out \in Outputs :
          \E seed \in ShapedSeeds(tensors, out) : CallGrad(inpt, out, seed)
    \/ Return

SpecLive == Init /\ [][NextLive]_vars /\ WF_vars(BackwardStep)

(***************************************************************************)
(* deepnet programs: leaves, binary operations and Tensor.backward.        *)
(***************************************************************************)
NextTensor ==
    \/ \E dim \in LeafShapes, dtype \in DTypes, usegrad \in BOOLEAN :
          CreateLeaf(dim, dtype, usegrad)
    \/ \E fn \in BinaryFns, a \in Ids, b \in Ids : DeepnetBinary(fn, a, b)
    \/ \E a \in Ids : DeepnetSum(a)
    \/ \E out \in Ids : \E seed \in Seeds(tensors, out) :
          TensorBackward(out, seed)
    \/ \E func \in DeepPrograms :
          \E primals \in ArgTuples(func, Ids), cotangent \in Ids,
             use_graph \in BOOLEAN, clones \in BOOLEAN :
             /\ calls < MaxApiPasses
             /\ use_graph => clones
             /\ DeepnetVjp(primals, cotangent, func, use_graph, clones)
    \/ Return

SpecTensor == Init /\ [][NextTensor]_vars

(***************************************************************************)
(* Reference computations the claims are stated against.                   *)
(***************************************************************************)
\* old + c1 + c2 + ... for a sequence of arrays
RECURSIVE FoldAdd(_, _)
FoldAdd(old, cs) ==
    IF cs = <<>> THEN old
    ELSE FoldAdd(Elementwise("add", old, Head(cs)), Tail(cs))

SameArray(x, y) == x.dim = y.dim /\ x.data = y.data

\* the grad a leaf holds after the arrays cs were added to the grad old
GradAfter(tensor, old, cs) ==
    IF cs = <<>> THEN old
    ELSE FoldAdd(IF old = None THEN zeroslike(tensor.data) ELSE old, cs)

SameGrad(x, y) ==
    IF x = None \/ y = None THEN x = y ELSE SameArray(x, y)

\* a backward pass that ran to the end without an error
PassDone ==
    /\ mode = "idle"
    /\ lastcall # None
    /\ lastcall.api = "backward"
    /\ err = "none"

\* the grad tensor t had when the running/last call started
Grad0(t) == IF t <= Len(grad0) THEN grad0[t] ELSE None

TrackedLeaf(t) == tensors[t].leaf /\ tensors[t].usegrad
Untracked(t) == ~tensors[t].usegrad

\* C1: in op(a, b) with exactly one operand a tracked leaf and the other
\* untracked, in either position, a finished backward pass from the
\* operation's output has added to the tracked leaf's grad the gradient the
\* backward function returned for that leaf's own position, and has left
\* the untracked operand's grad unset.
C1_TrackedOperandGetsOwnGradient ==
    PassDone =>
      LET o == lastcall.out
          node == tensors[o].backfn
          saved == node.context.tensors
          seed == trace[1].grad
      IN  \A k \in 1..2 :
            (/\ Len(saved) = 2
             /\ saved[1] # saved[2]
             /\ TrackedLeaf(saved[k])
             /\ Untracked(saved[3 - k]))
            => /\ SameGrad(tensors[saved[k]].grad,
                           GradAfter(tensors[saved[k]], Grad0(saved[k]),
                             <<accumgradOf(tensors[saved[k]].data,
                                 NodeApply(tensors, node, seed)[k])>>))
               /\ tensors[saved[3 - k]].grad = None

ContribGrads(cs) == [k \in 1..Len(cs) |-> cs[k].grad]

\* C2: accumulation into a leaf adds and never overwrites: a leaf's grad is
\* unset until the first accumulation, which starts from zeros of the
\* leaf's shape, and after any sequence of backward calls it is the sum of
\* everything those calls accumulated into the leaf.
C2_GradIsSumOfContributions ==
    \A t \in Ids :
      /\ contribs[t] = <<>> => tensors[t].grad = None
      /\ contribs[t] # <<>> =>
           /\ tensors[t].grad # None
           /\ SameArray(tensors[t].grad,
                        FoldAdd(Fill(tensors[t].data.dim, "float", 0),
                                ContribGrads(contribs[t])))

\* a leaf that two different finished backward calls accumulated into
C2_Witness ==
    /\ mode = "idle"
    /\ \E t \in Ids :
         /\ tensors[t].leaf
         /\ \E i, j \in 1..Len(contribs[t]) :
              contribs[t][i].call # contribs[t][j].call
         /\ \E i \in 1..Len(tensors[t].grad.data) :
              tensors[t].grad.data[i] # 0

(***************************************************************************)
(* Paths of the graph under an output node.                                *)
(***************************************************************************)
RECURSIVE SumSeq(_)
SumSeq(xs) == IF xs = <<>> THEN 0 ELSE Head(xs) + SumSeq(Tail(xs))

RECURSIVE ConcatAll(_)
ConcatAll(xss) == IF xss = <<>> THEN <<>> ELSE Head(xss) \o ConcatAll(Tail(xss))

\* number of paths from `node` down to the operation node of tensor n
RECURSIVE Paths(_, _, _)
Paths(ts, node, n) ==
    IF node.context = None THEN 0
    ELSE IF node.tensor = n THEN 1
    ELSE LET cs == children(ts, node).list
         IN  SumSeq([k \in 1..Len(cs) |-> Paths(ts, cs[k], n)])

\* the gradients that reach leaf l along every path from (node, grad), each
\* reduced to the leaf as the accumulator reduces it, path by path
RECURSIVE PathGrads(_, _, _, _)
PathGrads(ts, node, grad, l) ==
    IF node.context = None
    THEN IF node.tensor = l THEN <<accumgradOf(ts[l].data, grad)>> ELSE <<>>
    ELSE LET cs == children(ts, node).list
             gs == NodeApply(ts, node, grad)
         IN  ConcatAll([k \in 1..Len(cs) |-> PathGrads(ts, cs[k], gs[k], l)])

Count(xs, P(_)) == Cardinality({k \in 1..Len(xs) : P(xs[k])})

\* C5: in a finished backward pass, an interior node is dequeued, and its
\* backward function invoked, once per path from the output node to it
\* (never once with a merged gradient), and every leaf's grad has grown by
\* the sum of the contributions of all paths from the output to the leaf.
C5_OneVisitPerPath ==
    PassDone =>
      LET ts0 == [t \in Ids |-> [tensors[t] EXCEPT !.grad = Grad0(t)]]
          root == tensors[lastcall.out].backfn
          seed == trace[1].grad
      IN  /\ \A n \in Ids :
               tensors[n].backfn # None =>
                 LET Deq(v) == v.tensor = n /\ ~v.accum
                     App(v) == v.tensor = n /\ v.applied
                 IN  /\ Count(trace, Deq) = Paths(ts0, root, n)
                     /\ Count(trace, App) = Paths(ts0, root, n)
          /\ \A l \in Ids :
               tensors[l].leaf =>
                 SameGrad(tensors[l].grad,
                          GradAfter(tensors[l], Grad0(l),
                                    PathGrads(ts0, root, seed, l)))

\* a finished pass over a diamond: an interior node dequeued twice
C5_Witness ==
    /\ PassDone
    /\ \E n \in Ids :
         /\ n # lastcall.out
         /\ tensors[n].backfn # None
         /\ Cardinality({k \in 1..Len(trace) :
                           trace[k].tensor = n /\ trace[k].applied}) = 2
    /\ \E l \in Ids :
         /\ tensors[l].leaf
         /\ tensors[l].grad # None

\* T is the trailing part of G
IsSuffix(T, G) ==
    /\ Len(T) <= Len(G)
    /\ \A k \in 1..Len(T) : T[k] = G[Len(G) - Len(T) + k]

\* the gradient G summed over its leading axes down to the shape T, a
\* suffix of G's shape: entry j of the result collects the entries of G
\* whose row-major position is j modulo the size of T
SumLeading(G, T) ==
    [dim |-> T, dtype |-> G.dtype,
     data |-> [j \in 1..Nelem(T) |->
                 SumOver({i \in 1..Nelem(G.dim) : (i - 1) % Nelem(T) = j - 1},
                         G.data)]]

\* C3: whenever a leaf of shape T accumulates a gradient of shape G that T
\* broadcasts to, the leaf's grad has exactly the shape T.
C3_GradHasLeafShape ==
    \A t \in Ids :
      (/\ tensors[t].leaf
       /\ contribs[t] # <<>>
       /\ \A k \in 1..Len(contribs[t]) :
            /\ Broadcastable(tensors[t].data.dim, contribs[t][k].incoming.dim)
            /\ BroadcastDim(tensors[t].data.dim, contribs[t][k].incoming.dim)
                 = contribs[t][k].incoming.dim)
      => tensors[t].grad.dim = tensors[t].data.dim

Called(apis) == lastcall # None /\ lastcall.api \in apis

\* the last call neither ran f, nor dequeued a pair, nor left the queue
\* seeded, nor changed any tensor's grad
NothingRan ==
    /\ fcalls = 0
    /\ trace = <<>>
    /\ queue = <<>>
    /\ mode = "idle"
    /\ Grads(tensors) = grad0

\* C6: backward(out) and grad(inputs, out) on an output that has no producer
\* node fail with NoGraphError before the queue is seeded: no backward
\* function is invoked and no tensor's grad changes.
C6_NoProducerIsNoGraphError ==
    (/\ Called({"backward", "grad"})
     /\ tensors[lastcall.out].backfn = None)
    => /\ err = "NoGraphError"
       /\ NothingRan

\* C6 (amended): backward(out), and grad(inputs, out) with floating-point
\* inputs, on an output that has no producer node fail with NoGraphError
\* before the queue is seeded; grad with an input that is not floating-point
\* fails there too, with NonDifferentiableTypeError.
C6_NoProducerIsNoGraphErrorFloatInputs ==
    (/\ Called({"backward", "grad"})
     /\ tensors[lastcall.out].backfn = None)
    => /\ NothingRan
       /\ IF lastcall.api = "grad" /\ ~AllGradtensor(tensors, lastcall.inpt)
          THEN err = "NonDifferentiableTypeError"
          ELSE err = "NoGraphError"

\* after a backward pass stored a grad, grad is called with floating-point
\* inputs on a tensor without a producer node
C6_Witness ==
    /\ Called({"grad"})
    /\ tensors[lastcall.out].backfn = None
    /\ AllGradtensor(tensors, lastcall.inpt)
    /\ err = "NoGraphError"
    /\ \E t \in Ids : tensors[t].grad # None

\* the tensor f returns when vjp runs it on the fresh leaf copies
VjpOutput ==
    LET copies == LeafCopies(tensors, lastcall.inpt)
        run == RunF(lastcall.f, WithCopies(tensors, copies),
                    autograd(TRUE, TRUE, FALSE), CopyIds(tensors, copies))
    IN  run.ts[run.out]

\* the last call was a vjp whose arguments passed validation and whose f ran
VjpRan ==
    /\ Called({"vjp"})
    /\ vjperr(tensors, lastcall.inpt, lastcall.vec) = "none"
    /\ ~FRaises(lastcall.f, tensors, lastcall.inpt)

\* C7: vjp(inputs, cotangent, f) raises NoGraphError when the tensor f
\* produced has no producer node, the error backward and grad raise then.
C7_VjpNoProducerIsNoGraphError ==
    (VjpRan /\ VjpOutput.backfn = None) => err = "NoGraphError"

\* the seed the running/last pass started from
SeedUsed == IF trace # <<>> THEN trace[1].grad ELSE queue[1].grad

\* the last call got past validation and started its traversal
Proceeded ==
    /\ err \notin {"NoGraphError", "AmbiguousSeedError",
                   "NonDifferentiableTypeError"}
    /\ trace # <<>> \/ queue # <<>>

\* C8: called with an output that has a producer node (and, for grad, with
\* floating-point inputs), backward and grad fail with AmbiguousSeedError
\* exactly when no seed is supplied and the output has more than one
\* element; with a one-element output and no seed they proceed from an
\* all-ones seed of the output's shape.
C8_AmbiguousSeedExactlyWithoutSeed ==
    (/\ Called({"backward", "grad", "Tensor.backward"})
     /\ tensors[lastcall.out].backfn # None
     /\ lastcall.api = "grad" => AllGradtensor(tensors, lastcall.inpt))
    => LET out == tensors[lastcall.out].data
       IN  /\ err = "AmbiguousSeedError"
              <=> (lastcall.seed = None /\ Nelem(out.dim) > 1)
           /\ (lastcall.seed = None /\ Nelem(out.dim) = 1)
              => /\ Proceeded
                 /\ SameArray(SeedUsed, oneslike(out))

\* the argument of the last call that C9 names is not floating-point
NonFloatArgument ==
    CASE lastcall.api \in {"backward", "grad"} ->
           lastcall.seed # None /\ ~gradtensor(lastcall.seed)
      [] lastcall.api = "vjp" ->
           \/ ~AllGradtensor(tensors, lastcall.inpt)
           \/ ~gradtensor(lastcall.vec)
      [] lastcall.api = "jvp" ->
           \/ ~AllGradtensor(tensors, lastcall.inpt)
           \/ \E k \in 1..Len(lastcall.vec) : ~gradtensor(lastcall.vec[k])
      [] lastcall.api \in {"jacrev", "jacfwd"} ->
           ~AllGradtensor(tensors, lastcall.inpt)

EntryPoints == {"backward", "grad", "vjp", "jvp", "jacrev", "jacfwd"}

RECURSIVE BackwardTrace(_, _, _)
BackwardTrace(ts, q, tr) ==
    IF q = <<>> THEN [trace |-> tr, raised |-> FALSE]
    ELSE LET r == BackwardIter(ts, q)
         IN  IF r.raised
             THEN [trace |-> Append(tr, Visit(ts, q)), raised |-> TRUE]
             ELSE BackwardTrace(r.ts, r.queue, Append(tr, Visit(ts, q)))

\* the distinct tensors of a tuple, in the order of their first occurrence
RECURSIVE Keys(_)
Keys(inpt) ==
    IF inpt = <<>> THEN <<>>
    ELSE LET rest == Keys(SelectSeq(inpt, LAMBDA t : t # inpt[1]))
         IN  <<inpt[1]>> \o rest

\* C10: grad(inputs, output, seed) performs the traversal backward performs
\* and leaves every tensor's grad as it was before the call; what it
\* accumulated is only in the returned result.
C10_GradLeavesGradsUnchanged ==
    Called({"grad"}) =>
      /\ Grads(tensors) = grad0
      /\ err = "none" =>
           LET root == tensors[lastcall.out].backfn
               seed == trace[1].grad
               back == BackwardTrace(tensors,
                                     <<[node |-> root, grad |-> seed]>>, <<>>)
               keys == Keys(lastcall.inpt)
           IN  /\ ~back.raised => trace = back.trace
               /\ Len(result) = Len(keys)
               /\ \A k \in 1..Len(keys) :
                    tensors[keys[k]].leaf =>
                      SameArray(result[k],
                                FoldAdd(zeroslike(tensors[keys[k]].data),
                                        PathGrads(tensors, root, seed,
                                                  keys[k])))

\* grad returned a gradient that is not zero for a leaf whose stored grad, set
\* by an earlier backward pass, is a different array
C10_Witness ==
    /\ Called({"grad"})
    /\ err = "none"
    /\ Len(trace) > 1
    /\ \E k \in 1..Len(lastcall.inpt) :
         LET t == lastcall.inpt[k]
         IN  /\ k <= Len(result)
             /\ tensors[t].leaf
             /\ tensors[t].grad # None
             /\ \E i \in 1..Len(result[k].data) : result[k].data[i] # 0
             /\ ~SameArray(result[k], tensors[t].grad)

(***************************************************************************)
(* vjp and jvp.                                                            *)
(***************************************************************************)
\* the tensors of the caller that a vjp call was given: the inputs, and the
\* cotangent where it is one of the caller's tensors
VjpArguments(call) ==
    {call.inpt[k] : k \in 1..Len(call.inpt)}
    \cup (IF call.api = "deepnet.vjp" THEN {call.vec} ELSE {})

\* C11: vjp runs f on fresh copies of the inputs; after vjp returns, the
\* caller's input tensors and cotangent tensor have the same requires_grad,
\* is_leaf, grad and producer node as before the call.
C11_VjpLeavesArgumentsAsTheyWere ==
    [][(/\ lastcall = None
        /\ lastcall' # None
        /\ lastcall'.api \in {"vjp", "deepnet.vjp"})
       => \A t \in VjpArguments(lastcall') :
            /\ tensors'[t].usegrad = tensors[t].usegrad
            /\ tensors'[t].leaf = tensors[t].leaf
            /\ tensors'[t].grad = tensors[t].grad
            /\ tensors'[t].backfn = tensors[t].backfn]_vars

\* the tangent of f at the payloads xs along the tangents vs, by the rules
\* of differentiation
JvpTangent(f, xs, vs) ==
    CASE f = "fmul" ->
           Elementwise("add", Elementwise("mul", vs[1], xs[2]),
                              Elementwise("mul", xs[1], vs[2]))
      [] f = "frelu" -> Elementwise("mul", ReLUMask(xs[1]), vs[1])
      [] f = "fid" -> vs[1]

\* the run of f that jvp(call.inpt, call.vec, call.f) makes from the table
JvpRun(call) ==
    LET copies == TangentCopies(tensors, call.inpt, call.vec)
    IN  RunF(call.f, WithCopies(tensors, copies),
             autograd(TRUE, FALSE, TRUE), CopyIds(tensors, copies))

\* the tensors that run of f created
JvpCreated(call) ==
    (Len(tensors) + Len(call.inpt) + 1)..Len(JvpRun(call).ts)

JvpReturned == lastcall # None /\ lastcall.api = "jvp" /\ err = "none"

\* C12: jvp attaches the i-th tangent to the i-th input, runs f once under
\* the Forward discipline and returns f's output with the tangent read off
\* it: the tangent of f along the given tangents. No node is visited, and no
\* tensor created while f runs receives a producer node.
C12_JvpIsOneForwardRun ==
    JvpReturned =>
      /\ fcalls = 1
      /\ trace = <<>>
      /\ queue = <<>>
      /\ result.grad =
           JvpTangent(lastcall.f,
                      [k \in 1..Len(lastcall.inpt) |->
                         tensors[lastcall.inpt[k]].data],
                      lastcall.vec)
      /\ result.out.data = JvpRun(lastcall).ts[JvpRun(lastcall).out].data
      /\ \A t \in JvpCreated(lastcall) : JvpRun(lastcall).ts[t].backfn = None

\* a jvp of the product of two different tensors has returned a tangent
C12_Witness ==
    /\ JvpReturned
    /\ lastcall.f = "fmul"
    /\ lastcall.inpt[1] # lastcall.inpt[2]
    /\ JvpCreated(lastcall) # {}
    /\ \E i \in 1..Len(result.grad.data) : result.grad.data[i] # 0

(***************************************************************************)
(* The Jacobians.                                                          *)
(***************************************************************************)
\* the shape of f's output on the payloads xs
OutDim(f, xs) ==
    IF f = "fmul" THEN BroadcastDim(xs[1].dim, xs[2].dim) ELSE xs[1].dim

\* the partial derivative of the i-th (row-major, 0-based) element of f's
\* output with respect to the j-th element of f's argument at position pos
Partial(f, xs, pos, i, j) ==
    LET idx == Unravel(i, OutDim(f, xs))
        x == xs[pos + 1]
        feeds == Ravel(BIndex(idx, x.dim), x.dim) = j
    IN  CASE f = "fmul" ->
               LET other == xs[2 - pos]
               IN  IF feeds THEN At(other, BIndex(idx, other.dim)) ELSE 0
          [] f = "frelu" -> IF feeds /\ x.data[j + 1] > 0 THEN 1 ELSE 0
          [] f = "fid" -> IF feeds THEN 1 ELSE 0
          [] f = "fconst" -> 0

\* the Jacobian of f with respect to its argument at position pos: shape
\* (output shape..., input shape...), entry (i, j) the partial derivative
JacobianOf(f, xs, pos) ==
    LET odim == OutDim(f, xs)
        tdim == xs[pos + 1].dim
    IN  [dim |-> odim \o tdim,
         data |-> [n \in 1..(Nelem(odim) * Nelem(tdim)) |->
                     Partial(f, xs, pos, (n - 1) \div Nelem(tdim),
                             (n - 1) % Nelem(tdim))]]

\* the payloads of the inputs of the last call
CallInputs == [k \in 1..Len(lastcall.inpt) |-> tensors[lastcall.inpt[k]].data]

JacReturned(api) == lastcall # None /\ lastcall.api = api /\ err = "none"

\* the one-hot array of a's shape and type with its one at the i-th
\* (row-major, 0-based) index
OneHot(a, i) ==
    [dim |-> a.dim, dtype |-> a.dtype,
     data |-> [j \in 1..Nelem(a.dim) |-> IF j - 1 = i THEN 1 ELSE 0]]

\* what vjp gives for inpt[pos] on fresh leaf copies of the inputs of the
\* call, with the i-th one-hot cotangent of the output's shape
JacRow(call, i) ==
    LET copies == LeafCopies(tensors, call.inpt)
    IN  vjpOf(WithCopies(tensors, copies), CopyIds(tensors, copies),
              OneHot(result.out.data, i), call.f).grads[call.pos + 1]

\* what jvp gives on copies of the inputs of the call, inpt[pos] carrying
\* the j-th one-hot tangent and every other input a zero tangent
JacCol(call, j) ==
    LET copies == [k \in 1..Len(call.inpt) |->
                     [tensors[call.inpt[k]] EXCEPT
                        !.usegrad = TRUE,
                        !.grad = IF k = call.pos + 1
                                 THEN OneHot(tensors[call.inpt[k]].data, j)
                                 ELSE zeroslike(tensors[call.inpt[k]].data)]]
    IN  jvpOf(WithCopies(tensors, copies), CopyIds(tensors, copies),
              call.f).grad

\* C13: jacrev and jacfwd return, for inpt[pos], a Jacobian of shape
\* (output shape..., input shape...): jacrev from one vjp (one run of f) per
\* element of the output, each with the one-hot cotangent of that element
\* and written at that element's row; jacfwd from one jvp (one run of f) per
\* element of inpt[pos], each with the one-hot tangent of that element (zero
\* tangents on the other inputs) and written at that element's column.
C13_JacobiansByOneHotPasses ==
    \A api \in {"jacrev", "jacfwd"} :
      JacReturned(api) =>
        LET odim == result.out.data.dim
            tdim == CallInputs[lastcall.pos + 1].dim
        IN  /\ result.jac.dim = odim \o tdim
            /\ fcalls = 1 + (IF api = "jacrev" THEN Nelem(odim)
                             ELSE Nelem(tdim))
            /\ \A i \in 0..(Nelem(odim) - 1), j \in 0..(Nelem(tdim) - 1) :
                 result.jac.data[i * Nelem(tdim) + j + 1] =
                   IF api = "jacrev"
                   THEN BroadcastTo(JacRow(lastcall, i), tdim)[j + 1]
                   ELSE BroadcastTo(JacCol(lastcall, j), odim)[i + 1]

\* a Jacobian has been returned for a product, with more than one row and
\* more than one column and an entry that is not zero
C13_Witness ==
    /\ \/ JacReturned("jacrev")
       \/ JacReturned("jacfwd")
    /\ lastcall.f = "fmul"
    /\ Nelem(result.out.data.dim) > 1
    /\ Nelem(CallInputs[lastcall.pos + 1].dim) > 1
    /\ \E n \in 1..Len(result.jac.data) : result.jac.data[n] # 0

\* C14: for the same f, inputs and pos, the Jacobian jacrev returns equals
\* the Jacobian jacfwd returns.
C14_JacrevEqualsJacfwd ==
    /\ JacReturned("jacrev") =>
         \E r \in {jacfwdOf(tensors, lastcall.inpt, lastcall.f,
                            lastcall.pos)} :
           r.raised = "none" /\ r.jac = result.jac
    /\ JacReturned("jacfwd") =>
         \E r \in {jacrevOf(tensors, lastcall.inpt, lastcall.f,
                            lastcall.pos)} :
           r.raised = "none" /\ r.jac = result.jac

(***************************************************************************)
(* Attaching an operation's output to the graph.                           *)
(***************************************************************************)
\* the operand tuples an operation can be applied to
Operands == TuplesOfLen(Ids, 1) \cup TuplesOfLen(Ids, 2)

\* this step applies fn to the tensors `saved`
Applies(fn, saved) ==
    IF Len(saved) = 2
    THEN fn \in BinaryFns /\ ApplyBinary(fn, saved[1], saved[2])
    ELSE fn \in UnaryFns /\ ApplyUnary(fn, saved[1])

\* this step applies deepnet's fn to the tensors `saved`
DeepnetApplies(fn, saved) ==
    IF Len(saved) = 2
    THEN fn \in BinaryFns /\ DeepnetBinary(fn, saved[1], saved[2])
    ELSE fn = "Sum" /\ DeepnetSum(saved[1])

\* the tensor as forward's result was wrapped: an untracked leaf with no
\* producer node and no tangent
Untouched(t) == t.leaf /\ t.backfn = None /\ ~t.usegrad /\ t.grad = None

\* the output of the operation this step applies
Output == tensors'[Len(tensors')]

\* C15: when grad-tracking is disabled, or no tensor saved in the operation's
\* Context requires gradients, the output of the operation is returned
\* untouched: still a leaf, with no producer node, requires_grad as it was
\* and no tangent stored on it.
C15_UntrackedOutputUntouched ==
    [][\A fn \in BinaryFns \cup UnaryFns \cup {"Sum"}, saved \in Operands :
         (/\ Applies(fn, saved) \/ DeepnetApplies(fn, saved)
          /\ ~gradmode.usegrad \/ ~usesgrad(tensors, saved))
         => Untouched(Output)]_vars

\* inside a scope that disables tracking, an operation has been applied to a
\* tracked leaf and its output is untouched
C15_Witness ==
    /\ scopes # <<>>
    /\ ~gradmode.usegrad
    /\ Len(tensors) = 2
    /\ nops = 1
    /\ tensors[1].usegrad
    /\ Untouched(tensors[2])

\* the children the node of an operation on `saved` is to have, in order: a
\* fresh accumulator for a tracked leaf, the producer node of a non-leaf
\* tensor, nothing for an untracked leaf
RECURSIVE ChildrenFor(_)
ChildrenFor(saved) ==
    IF saved = <<>> THEN <<>>
    ELSE LET t == tensors[Head(saved)]
         IN  (IF t.leaf /\ t.usegrad THEN <<Node(Head(saved), "None", None)>>
              ELSE IF ~t.leaf THEN <<t.backfn>>
              ELSE <<>>) \o ChildrenFor(Tail(saved))

\* C16: under the Reverse discipline with tracking enabled and at least one
\* saved tensor requiring gradients, the output of an applied operation has
\* requires_grad = true, is_leaf = false and a producer node whose children
\* are a fresh accumulator node for each saved tracked leaf and the existing
\* producer node of each saved tensor that is not a leaf.
C16_ReverseOutputHasProducerWithChildren ==
    [][\A fn \in BinaryFns \cup UnaryFns, saved \in Operands :
         (/\ Applies(fn, saved)
          /\ gradmode.usegrad /\ gradmode.reverse
          /\ usesgrad(tensors, saved))
         => /\ Output.usegrad
            /\ ~Output.leaf
            /\ Output.backfn # None
            /\ Output.backfn.function = fn
            /\ children(tensors', Output.backfn) # None
            /\ children(tensors', Output.backfn).list = ChildrenFor(saved)
            /\ \A k \in 1..Len(ChildrenFor(saved)) :
                 ChildrenFor(saved)[k] # None]_vars

\* the tangent stored on a tensor, all zeros of its shape if it has none
StoredTangent(t) ==
    IF tensors[t].grad # None THEN tensors[t].grad
    ELSE Fill(tensors[t].data.dim, tensors[t].data.dtype, 0)

\* the tangent of fn's output at the payloads xs along the tangents vs
OpTangent(fn, xs, vs) ==
    CASE fn = "Sub" -> Elementwise("sub", vs[1], vs[2])
      [] fn = "Mul" ->
           Elementwise("add", Elementwise("mul", vs[1], xs[2]),
                              Elementwise("mul", vs[2], xs[1]))
      [] fn = "ReLU" -> Elementwise("mul", ReLUMask(xs[1]), vs[1])

\* C17: under the Forward discipline (tracking enabled, some saved tensor
\* requiring gradients), applying an operation stores on the output the
\* result of its tangent function on the stored tangent of each saved input,
\* all zeros of the input's shape for an input that has none, and attaches
\* no producer node to the output.
C17_ForwardOutputCarriesTangent ==
    [][\A fn \in BinaryFns \cup UnaryFns, saved \in Operands :
         (/\ Applies(fn, saved)
          /\ gradmode.usegrad /\ gradmode.forward /\ ~gradmode.reverse
          /\ usesgrad(tensors, saved))
         => /\ Output.grad =
                 OpTangent(fn,
                           [k \in 1..Len(saved) |-> tensors[saved[k]].data],
                           [k \in 1..Len(saved) |-> StoredTangent(saved[k])])
            /\ Output.backfn = None]_vars

\* under the Forward discipline an operation on a tensor that carries a
\* tangent and one that carries none has stored a tangent that is not zero
C17_Witness ==
    /\ gradmode.usegrad /\ gradmode.forward /\ ~gradmode.reverse
    /\ Len(tensors) = 3
    /\ nops = 1
    /\ tensors[1].grad = None
    /\ tensors[2].leaf /\ tensors[2].grad # None
    /\ ~tensors[3].leaf /\ tensors[3].backfn = None
    /\ tensors[3].grad # None
    /\ \E i \in 1..Len(tensors[3].grad.data) : tensors[3].grad.data[i] # 0

\* C18: every tensor that is a leaf has no producer node, and every tensor
\* that is not a leaf has one, whatever operations, scopes and calls the
\* program has gone through.
C18_LeafIffNoProducer ==
    \A t \in Ids : tensors[t].leaf <=> tensors[t].backfn = None

(***************************************************************************)
(* The Mode State.                                                         *)
(***************************************************************************)
\* this step is a call of one of the functions that run f in scopes of
\* their own
ScopedCall ==
    /\ lastcall = None
    /\ lastcall' # None
    /\ lastcall'.api \in {"vjp", "jvp", "jacrev", "jacfwd"}

\* C19: the Mode State starts enabled under the Reverse discipline and
\* changes only by entering or leaving a scope; leaving a scope, nested or
\* not, at its end or because a call in it raised, puts back the Mode State
\* that was in force when the scope was entered; so after vjp, jvp, jacrev
\* or jacfwd the Mode State is what it was before the call.
C19_ModeStateRestored ==
    [][/\ scopes = <<>> => gradmode = DefaultMode
       /\ scopes' = <<>> => gradmode' = DefaultMode
       /\ gradmode' # gradmode => scopes' # scopes
       /\ Len(scopes') < Len(scopes) =>
            /\ gradmode' = scopes[Len(scopes)]
            /\ scopes' = SubSeq(scopes, 1, Len(scopes) - 1)
       /\ Len(scopes') > Len(scopes) => scopes' = Append(scopes, gradmode)
       /\ ScopedCall => gradmode' = gradmode /\ scopes' = scopes]_vars

\* inside a Forward scope nested in a scope that disables tracking, jacrev
\* has run f in Reverse scopes of its own and returned
C19_Witness ==
    /\ scopes = <<DefaultMode, autograd(FALSE, TRUE, FALSE)>>
    /\ gradmode = autograd(TRUE, FALSE, TRUE)
    /\ lastcall # None
    /\ lastcall.api = "jacrev"
    /\ fcalls > 1

(***************************************************************************)
(* The sum of a vector, differentiated.                                    *)
(***************************************************************************)
\* y.backward() has been called, without a seed, on y = sum(x), x being a
\* tracked leaf vector that had no gradient yet
SumBackwardCalled ==
    /\ lastcall # None
    /\ lastcall.api = "Tensor.backward"
    /\ lastcall.seed = None
    /\ tensors[lastcall.out].backfn # None
    /\ tensors[lastcall.out].backfn.function = "Sum"
    /\ LET x == tensors[lastcall.out].backfn.context.tensors[1]
       IN  /\ tensors[x].leaf
           /\ tensors[x].usegrad
           /\ tensors[x].data.dim = <<MaxDim>>
           /\ grad0[x] = None

\* C20: for a tracked leaf vector x, y = sum(x) followed by y.backward()
\* completes without error and leaves x.grad all ones: every element of x
\* receives the seed value.
C20_SumBackwardGivesOnes ==
    SumBackwardCalled =>
      LET x == tensors[lastcall.out].backfn.context.tensors[1]
      IN  /\ err = "none"
          /\ tensors[x].grad # None
          /\ tensors[x].grad.dim = <<MaxDim>>
          /\ \A i \in 1..MaxDim : tensors[x].grad.data[i] = 1

(***************************************************************************)
(* The product of two leaves, differentiated.                              *)
(***************************************************************************)
\* the seed the last backward call started from
SeedOf(call) ==
    IF call.seed = None THEN oneslike(tensors[call.out].data) ELSE call.seed

\* c.backward(g) has been called on c = a * b, a and b being two leaves of
\* one shape, tracked when the product was taken and without a gradient
\* yet, g being absent or of the shape of c
MulBackwardCalled ==
    /\ lastcall # None
    /\ lastcall.api = "Tensor.backward"
    /\ tensors[lastcall.out].backfn # None
    /\ tensors[lastcall.out].backfn.function = "Mul"
    /\ SeedOf(lastcall).dim = tensors[lastcall.out].data.dim
    /\ LET saved == tensors[lastcall.out].backfn.context.tensors
       IN  /\ saved[1] # saved[2]
           /\ \A k \in 1..2 :
                /\ TrackedLeaf(saved[k])
                /\ tensors[lastcall.out].backfn.next_functions[k] # None
                /\ Grad0(saved[k]) = None
           /\ tensors[saved[1]].data.dim = tensors[saved[2]].data.dim

\* C21: for c = a * b with both operands tracked leaves of the same shape
\* and seed g, backward stores a.grad = b * g and b.grad = a * g: each operand
\* receives the incoming gradient times the other saved operand.
C21_MulGivesOtherOperandTimesSeed ==
    MulBackwardCalled =>
      LET saved == tensors[lastcall.out].backfn.context.tensors
          a == tensors[saved[1]]
          b == tensors[saved[2]]
      IN  /\ err = "none"
          /\ a.grad # None /\ b.grad # None
          /\ SameArray(a.grad, Elementwise("mul", b.data, SeedOf(lastcall)))
          /\ SameArray(b.grad, Elementwise("mul", a.data, SeedOf(lastcall)))

\* the product of two different vectors has been differentiated from a seed
\* the caller supplied
C21_Witness ==
    /\ MulBackwardCalled
    /\ lastcall.seed # None
    /\ Nelem(tensors[lastcall.out].data.dim) > 1
    /\ LET saved == tensors[lastcall.out].backfn.context.tensors
       IN  tensors[saved[1]].data.data # tensors[saved[2]].data.data

(***************************************************************************)
(* The order of the traversal.                                             *)
(***************************************************************************)
\* this step starts a pass of backward
PassStarts == mode = "idle" /\ mode' = "backward"

\* this step is one iteration of the loop of the pass
PassIterates == mode = "backward" /\ trace' # trace

\* the child list of a node, empty for an accumulator
ChildList(node) ==
    IF children(tensors, node) = None THEN <<>>
    ELSE children(tensors, node).list

\* C22: the work queue starts as the one pair (output's producer node,
\* seed) and is processed first in, first out: every iteration dequeues the
\* pair at the head, the pairs behind it keep their order, and the children
\* of the dequeued node are enqueued at the tail in the order of the node's
\* child list, so that the traversal is breadth-first.
C22_QueueIsFirstInFirstOut ==
    [][/\ PassStarts =>
            queue' = <<[node |-> tensors[lastcall'.out].backfn,
                        grad |-> IF lastcall'.seed = None
                                 THEN oneslike(tensors[lastcall'.out].data)
                                 ELSE lastcall'.seed]>>
       /\ PassIterates =>
            /\ Len(trace') = Len(trace) + 1
            /\ trace'[Len(trace')].tensor = Head(queue).node.tensor
            /\ trace'[Len(trace')].accum = (Head(queue).node.context = None)
            /\ trace'[Len(trace')].grad = Head(queue).grad
            /\ err' = "none" =>
                 /\ Len(queue') >= Len(queue) - 1
                 /\ SubSeq(queue', 1, Len(queue) - 1) = Tail(queue)
                 /\ [k \in 1..(Len(queue') - Len(queue) + 1) |->
                       queue'[Len(queue) - 1 + k].node]
                    = ChildList(Head(queue).node)]_vars

\* a pair waits in the queue behind another while the pass goes on: the
\* node at the head has two children to enqueue behind the waiting pair
C22_Witness ==
    /\ mode = "backward"
    /\ Len(queue) = 2
    /\ Len(ChildList(queue[1].node)) = 2
    /\ Len(trace) >= 1

(***************************************************************************)
(* The children of a node over time.                                       *)
(***************************************************************************)
\* the nodes backward goes to from the node of tensor t: what
\* Node.children() returns, or the next functions the node holds
Followed(ts, t) ==
    IF "next_functions" \in DOMAIN ts[t].backfn
    THEN [list |-> SelectSeq(ts[t].backfn.next_functions,
                             LAMBDA n : n # None)]
    ELSE children(ts, ts[t].backfn)

\* C23: the children of a node are fixed when the node is constructed:
\* whatever happens afterwards to the flags or the producer node of an
\* input tensor, backward follows the children the inputs had when the
\* operation was applied; so no step changes the children of an existing
\* node.
C23_ChildrenFixedAtConstruction ==
    [][\A t \in Ids :
         tensors[t].backfn # None =>
           /\ tensors'[t].backfn # None
           /\ Followed(tensors', t) = Followed(tensors, t)]_vars

(***************************************************************************)
(* A backward function that returns its gradient unwrapped.                *)
(***************************************************************************)
\* this iteration dequeues the node of a ReLU whose input has a node
UnwrappedApplied ==
    /\ PassIterates
    /\ Head(queue).node.function = "ReLU"
    /\ ChildList(Head(queue).node) # <<>>
    /\ err' = "none"

C25_ApplyLeavesInputsUnchanged ==
    [][\A fn \in BinaryFns \cup UnaryFns \cup {"Sum"}, saved \in Operands :
         (Applies(fn, saved) \/ DeepnetApplies(fn, saved)) =>
           /\ Len(tensors') = Len(tensors) + 1
           /\ \A t \in Ids : tensors'[t] = tensors[t]]_vars

\* an output attached under the Reverse discipline and an output given its
\* tangent under the Forward discipline, both of tracked inputs
C25_Witness ==
    /\ Len(tensors) = 3
    /\ nops = 2
    /\ tensors[1].leaf /\ tensors[1].usegrad
    /\ ~tensors[2].leaf /\ tensors[2].backfn # None
    /\ ~tensors[3].leaf /\ tensors[3].backfn = None
    /\ tensors[3].grad # None

(***************************************************************************)
(* The tensors a backward pass writes.                                     *)
(***************************************************************************)
\* the accumulator of leaf l is reachable from `node`
RECURSIVE Reaches(_, _, _)
Reaches(ts, node, l) ==
    IF node.context = None THEN node.tensor = l
    ELSE \E k \in 1..Len(children(ts, node).list) :
            Reaches(ts, children(ts, node).list[k], l)

\* C26: a reverse-mode backward pass writes grad only on leaf tensors with
\* requires_grad = true that are reachable from the output: it never sets or
\* changes the grad of a non-leaf tensor, nor of a leaf whose requires_grad
\* is false.
C26_OnlyTrackedLeavesWritten ==
    [][mode = "backward" =>
         /\ Len(tensors') = Len(tensors)
         /\ \A t \in Ids :
              tensors'[t].grad # tensors[t].grad =>
                /\ TrackedLeaf(t)
                /\ Reaches(tensors, tensors[lastcall.out].backfn, t)]_vars

\* a finished pass from the product of a tracked and an untracked leaf: the
\* tracked leaf's grad was written, the other leaf and the output have none
C26_Witness ==
    /\ PassDone
    /\ Len(tensors) = 3
    /\ lastcall.out = 3
    /\ tensors[3].backfn # None
    /\ tensors[3].backfn.context.tensors = <<1, 2>>
    /\ TrackedLeaf(1) /\ tensors[1].grad # None /\ Grad0(1) = None
    /\ tensors[2].leaf /\ ~tensors[2].usegrad /\ tensors[2].grad = None
    /\ tensors[3].grad = None

(***************************************************************************)
(* A pass stopped by the array backend.                                    *)
(***************************************************************************)
\* the gradients the accumulators of leaf t took in the iterations of tr
Accumulated(tr, t) ==
    LET own == SelectSeq(tr, LAMBDA v : v.accum /\ v.tensor = t)
    IN  [k \in 1..Len(own) |-> accumgradOf(tensors[t].data, own[k].grad)]

\* this iteration of a backward pass raises the backend's shape mismatch
PassFails == mode = "backward" /\ err' = "ShapeMismatchError"

\* C27: when the array backend raises a shape mismatch in the middle of a
\* backward pass, the error reaches the caller and the pass stops; what the
\* pairs dequeued before the failing node accumulated into leaves remains in
\* those leaves' grad, and no other tensor state is changed.
C27_FailedPassKeepsEarlierGradients ==
    [][/\ mode = "backward" =>
            /\ Len(tensors') = Len(tensors)
            /\ \A t \in Ids :
                 [tensors'[t] EXCEPT !.grad = tensors[t].grad] = tensors[t]
       /\ PassFails =>
            /\ mode' = "idle"
            /\ queue' = <<>>
            /\ tensors' = tensors
            /\ \A t \in Ids :
                 SameGrad(tensors'[t].grad,
                          GradAfter(tensors[t], Grad0(t),
                                    Accumulated(trace, t)))]_vars

\* a pass that failed in an operation's backward function after a leaf had
\* accumulated a gradient of this pass
C27_Witness ==
    /\ mode = "idle"
    /\ lastcall # None
    /\ lastcall.api = "backward"
    /\ err = "ShapeMismatchError"
    /\ Len(trace) >= 3
    /\ ~trace[Len(trace)].accum
    /\ \E k \in 1..(Len(trace) - 1) :
         /\ trace[k].accum
         /\ Grad0(trace[k].tensor) = None
         /\ tensors[trace[k].tensor].grad # None

(***************************************************************************)
(* Termination of the passes.                                              *)
(***************************************************************************)
\* the number of paths from the node of tensor t to the nodes under it, the
\* node itself included: a tracked leaf has an accumulator, an operation's
\* output its producer, whose paths go on through the tensors it saved
RECURSIVE NodePaths(_, _)
NodePaths(ts, t) ==
    IF ts[t].leaf THEN (IF ts[t].usegrad THEN 1 ELSE 0)
    ELSE IF ts[t].backfn = None THEN 0
    ELSE 1 + SumSeq([k \in 1..Len(ts[t].backfn.context.tensors) |->
                       NodePaths(ts, ts[t].backfn.context.tensors[k])])

\* C28: on every finite acyclic graph, backward and grad terminate: the work
\* queue eventually becomes empty, after exactly one dequeue per path from
\* the output node to each reachable node.
C28_PassesTerminate ==
    /\ [](/\ mode = "idle"
          /\ Called({"backward", "grad"})
          /\ err = "none"
          => Len(trace) = NodePaths(tensors, lastcall.out))
    /\ (mode = "backward" ~> (mode = "idle" /\ queue = <<>>))

\* a pass that ran to its end over a graph in which a node is reached along
\* more than one path
C28_Witness ==
    /\ PassDone
    /\ queue = <<>>
    /\ Len(trace) >= 5
    /\ \E i, j \in 1..Len(trace) :
         i # j /\ trace[i].tensor = trace[j].tensor

(***************************************************************************)
(* The gradients grad and vjp return.                                      *)
(***************************************************************************)
\* tensor t has a node in the graph under `node`
RECURSIVE InGraph(_, _, _)
InGraph(ts, node, t) ==
    \/ node.tensor = t
    \/ /\ node.context # None
       /\ \E k \in 1..Len(children(ts, node).list) :
             InGraph(ts, children(ts, node).list[k], t)

\* C29: grad(inputs, output, seed) and vjp return exactly one gradient per
\* requested input, in the order the inputs were given, also when the same
\* tensor appears more than once in inputs and when a requested input is not
\* reachable from the output (its gradient is then zeros of its shape).
C29_OneGradientPerInput ==
    (Called({"grad", "vjp"}) /\ err = "none") =>
      LET grads == IF lastcall.api = "grad" THEN result ELSE result.grads
          inpt == lastcall.inpt
      IN  /\ Len(grads) = Len(inpt)
          /\ lastcall.api = "grad" =>
               \A k \in 1..Len(inpt) :
                 (/\ k <= Len(grads)
                  /\ ~InGraph(tensors, tensors[lastcall.out].backfn, inpt[k]))
                 => grads[k] = zeroslike(tensors[inpt[k]].data)

(***************************************************************************)
(* The shape of the seed.                                                  *)
(***************************************************************************)
\* C30: backward, grad and vjp reject an explicitly supplied seed gradient
\* whose shape differs from the output tensor's shape before any traversal
\* starts, so a seed of the wrong shape never reaches an operation's
\* backward function or a leaf's grad.
C30_WrongShapedSeedRejected ==
    (/\ Called({"backward", "grad"})
     /\ lastcall.seed # None
     /\ lastcall.seed.dim # tensors[lastcall.out].data.dim)
    => /\ err # "none"
       /\ NothingRan

====
